---------------------------- MODULE Spec2Model ----------------------------
(***************************************************************************)
(* Hot-memory record store of aethervault (hooks/hot_memory_store.py) with *)
(* its commands (memory-scorer.py, memory-linter.py, weekly-reflection.py) *)
(* and the extraction pipeline (memory-extractor.py).                      *)
(*                                                                         *)
(* Time is counted in minutes.  A text is a sequence of one-character      *)
(* strings.  A timestamp field holding Python None is NONE, one holding a  *)
(* string that is no ISO timestamp is UNPARSABLE.                          *)
(***************************************************************************)
EXTENDS Integers, Sequences, FiniteSets, TLC

VARIABLES
    store,        \* content of hot-memories.jsonl (HOT_MEMORY_PATH)
    archive,      \* content of hot-memories-archive.jsonl (ARCHIVE_PATH)
    lockHolders,  \* processes holding the flock on hot-memories.lock
    now,          \* wall clock, minutes
    nextId,       \* identity of the next record object created
    pc,           \* per store process: position in its command
    op,           \* per store process: the command and its arguments
    snap,         \* per store process: the list read_hot_memories() returned
    mem,          \* per store process: the list handed to write_hot_memories
    target,       \* per store process: `memories` after the capacity block
    evict,        \* per store process: the records the capacity block evicted
    tmp,          \* per store process: its temporary file (NoFile or lines)
    started,      \* number of commands (or extractor invocations) started so far
    marker,       \* last_processed of extractor-marker.json (NONE: no file)
    instHolders,  \* extractor processes holding the flock on extractor.pid
    run,          \* per extractor process: the locals of main and run_extraction
    failure_data, \* content of extractor-failures.json (FAILURE_PATH)
    sent,         \* the notifications handed to send_telegram, in order
    recorded,     \* per component: record_failure calls since its last record_success
    health_calls, \* number of record_failure and record_success calls so far
    lint,         \* the last run of memory-linter.py: arguments, report, exit code
    decay,        \* the last two calls of compute_decay_strength: arguments and results
    api           \* the call_claude in progress: attempt, outcomes so far, result

storeVars == <<store, archive, lockHolders, now, nextId, pc, op, snap, mem,
               target, evict, tmp, started>>
healthVars == <<failure_data, sent, recorded, health_calls>>
callVars == <<decay, api>>
toolVars == <<healthVars, lint, callVars>>
pipeVars == <<marker, instHolders, run, toolVars>>
vars == <<storeVars, pipeVars>>

-----------------------------------------------------------------------------
(* Program constants                                                       *)

MAX_HOT_MEMORIES == 200
MAX_PINNED_MEMORIES == 50
MAX_ARCHIVE_LINES == 10000
PRUNE_THRESHOLD_MILLI == 50
REINFORCE_DELTA_PCT == 15
REINFORCE_N == 5
REFLECTION_IMPORTANCE == 8
MIN_FACT_LENGTH == 20
STALENESS_DAYS == 7
PROMOTE_THRESHOLD_TENTHS == 7
HOUSEKEEPING_PRUNE_MINUTES == 2880
PRUNE_DEFAULT_MINUTES == 1440
CONSECUTIVE_FAILURE_ALERT_THRESHOLD == 3
HISTORY_CAP == 100
MAX_RETRIES == 2
MAX_STORE_BYTES == 10485760

(* Bounds of the model                                                     *)

NumProcs == 2
MaxStarted == 2
MaxCalls == 2
MaxRuns == 1
MaxHealthCalls == 5
MaxLintRuns == 2
MaxDecayCalls == 2
MaxApiCalls == 2

NONE == -1
\* a t_invalid value that datetime.fromisoformat does not accept
UNPARSABLE == -2
NoFile == <<[nofile |-> TRUE]>>
Procs == 1 .. NumProcs

-----------------------------------------------------------------------------
(* Sequence helpers                                                        *)

\* Python s[-n:] for 0 < n
LastN(s, n) == IF Len(s) <= n THEN s ELSE SubSeq(s, Len(s) - n + 1, Len(s))
\* Python s[:-n] for 0 < n
AllButLastN(s, n) == IF Len(s) <= n THEN <<>> ELSE SubSeq(s, 1, Len(s) - n)

Ids(s) == {s[i].id : i \in 1 .. Len(s)}
Range(s) == {s[i] : i \in 1 .. Len(s)}

-----------------------------------------------------------------------------
(* Text: str.lower(), str.strip(), the `in` substring test                 *)

LowerChar(c) ==
    CASE c = "A" -> "a" [] c = "B" -> "b" [] c = "C" -> "c" [] c = "D" -> "d"
      [] c = "E" -> "e" [] c = "L" -> "l" [] c = "R" -> "r" [] c = "S" -> "s"
      [] c = "T" -> "t" [] c = "U" -> "u"
      [] OTHER -> c

Lower(t) == [i \in 1 .. Len(t) |-> LowerChar(t[i])]

RECURSIVE LStrip(_)
LStrip(t) == IF t # <<>> /\ Head(t) = " " THEN LStrip(Tail(t)) ELSE t

RECURSIVE RStrip(_)
RStrip(t) ==
    IF t # <<>> /\ t[Len(t)] = " " THEN RStrip(SubSeq(t, 1, Len(t) - 1)) ELSE t

Strip(t) == RStrip(LStrip(t))

\* Python `a in b` on strings
Contains(b, a) ==
    \E i \in 0 .. (Len(b) - Len(a)) : SubSeq(b, i + 1, i + Len(a)) = a

-----------------------------------------------------------------------------
(* Records.  `id` stands for the identity of the record object; the other  *)
(* fields are the JSON fields the commands read or write.                  *)
(* decay_strength is in thousandths, entities is the length of the list    *)
(* (NONE when the key is absent).                                          *)

MkRec(i, f, p, c, imp, cat, ent) ==
    [id |-> i, fact |-> f, pinned |-> p, t_invalid |-> NONE, created_at |-> c,
     importance |-> imp, category |-> cat, entities |-> ent,
     access_count |-> 0, decay_strength |-> 1000]

IsValid(m) == m.t_invalid = NONE

VALID_CATEGORIES ==
    {"preference", "person", "project", "event", "plan", "health", "work",
     "opinion", "habit", "location", "relationship", "general"}

-----------------------------------------------------------------------------
(* read_hot_memories: the store file only ever holds complete lines        *)
(* (see WriteRename), so every line parses; a file above the size ceiling  *)
(* of line 171 is not read at all.                                         *)

\* stands for a fact of 6 MB (a pasted dump); every other text of the model
\* gives a line of some 300 bytes
F_dump == <<"d", "u", "m", "p">>

IsDump(m) == m.fact = F_dump

\* os.path.getsize of a file holding the lines of `file`
FileBytes(file) == 300 * Len(file) + 6000000 * Len(SelectSeq(file, IsDump))

\* a read that knows no ceiling
read_hot_memories_Unguarded(file) == file

read_hot_memories(file) ==
    IF FileBytes(file) > MAX_STORE_BYTES THEN <<>> ELSE file

-----------------------------------------------------------------------------
(* write_hot_memories, capacity block (lines 213-229)                      *)

IsPinned(m) == m.pinned
IsUnpinned(m) == ~m.pinned

PinnedOf(memories) == SelectSeq(memories, IsPinned)
UnpinnedOf(memories) == SelectSeq(memories, IsUnpinned)

\* pinned[:-MAX_PINNED_MEMORIES] when the pinned cap is exceeded
PinnedEvicted(memories) ==
    IF Len(memories) > MAX_HOT_MEMORIES
          /\ Len(PinnedOf(memories)) > MAX_PINNED_MEMORIES
    THEN AllButLastN(PinnedOf(memories), MAX_PINNED_MEMORIES)
    ELSE <<>>

\* `pinned` after the cap
PinnedKept(memories) ==
    IF Len(PinnedOf(memories)) > MAX_PINNED_MEMORIES
    THEN LastN(PinnedOf(memories), MAX_PINNED_MEMORIES)
    ELSE PinnedOf(memories)

Budget(memories) == MAX_HOT_MEMORIES - Len(PinnedKept(memories))

UnpinnedEvicted(memories) ==
    IF Len(memories) > MAX_HOT_MEMORIES
          /\ Budget(memories) > 0
          /\ Len(UnpinnedOf(memories)) > Budget(memories)
    THEN AllButLastN(UnpinnedOf(memories), Budget(memories))
    ELSE <<>>

\* a cut that keeps one unpinned record too many
UnpinnedKept_OffByOne(memories) ==
    IF Budget(memories) > 0 /\ Len(UnpinnedOf(memories)) > Budget(memories)
    THEN LastN(UnpinnedOf(memories), Budget(memories) + 1)
    ELSE UnpinnedOf(memories)

\* a cut that keeps the oldest records of the budget
UnpinnedKept_Oldest(memories) ==
    IF Budget(memories) > 0 /\ Len(UnpinnedOf(memories)) > Budget(memories)
    THEN SubSeq(UnpinnedOf(memories), 1, Budget(memories))
    ELSE UnpinnedOf(memories)

UnpinnedKept(memories) ==
    IF Budget(memories) > 0 /\ Len(UnpinnedOf(memories)) > Budget(memories)
    THEN LastN(UnpinnedOf(memories), Budget(memories))
    ELSE UnpinnedOf(memories)

\* `memories` as written to the temporary file
Capped(memories) ==
    IF Len(memories) > MAX_HOT_MEMORIES
    THEN PinnedKept(memories) \o UnpinnedKept(memories)
    ELSE memories

\* _archive_evicted: k lines reach the archive before an OSError stops the
\* loop (k = Len(evicted) when there is none)
ArchiveAppend(arch, evicted, k, t) ==
    arch \o [i \in 1 .. k |-> [rec |-> evicted[i], evicted_at |-> t]]

ArchivedIds(arch) == {arch[i].rec.id : i \in 1 .. Len(arch)}

-----------------------------------------------------------------------------
(* Command bodies: what each command computes from the list it read.       *)
(* A body yields [write |-> whether write_hot_memories is called,          *)
(*                list  |-> the list handed to it].                        *)

NormFact(m) == Strip(Lower(m.fact))

\* a duplicate guard that also counts invalidated records
AppendBlocked_AnyRecord(memories, fact_text) ==
    \E i \in 1 .. Len(memories) : NormFact(memories[i]) = Strip(Lower(fact_text))

\* append_hot_memory, lines 261-269
AppendBlocked(memories, fact_text) ==
    \E i \in 1 .. Len(memories) :
        NormFact(memories[i]) = Strip(Lower(fact_text)) /\ IsValid(memories[i])

AppendBody(memories, new_rec) ==
    IF AppendBlocked(memories, new_rec.fact)
    THEN [write |-> FALSE, list |-> memories]
    ELSE [write |-> TRUE, list |-> Append(memories, new_rec)]

\* a substring test that forgets to lower-case
Matches_CaseSensitive(m, text) == Contains(m.fact, text)

\* the loop shared by invalidate_hot_memory (281-285) and update_hot_memory
\* (300-302): t_invalid is set on every record whose fact contains the text
Matches(m, text) == Contains(Lower(m.fact), Lower(text))

\* an invalidation that clears t_invalid of a record that has one
MarkInvalid_Toggle(memories, text, t) ==
    [i \in 1 .. Len(memories) |->
        IF Matches(memories[i], text)
        THEN [memories[i] EXCEPT !.t_invalid = IF @ = NONE THEN t ELSE NONE]
        ELSE memories[i]]

MarkInvalid(memories, text, t) ==
    [i \in 1 .. Len(memories) |->
        IF Matches(memories[i], text)
        THEN [memories[i] EXCEPT !.t_invalid = t]
        ELSE memories[i]]

InvalidateBody(memories, target_fact, t) ==
    [write |-> \E i \in 1 .. Len(memories) : Matches(memories[i], target_fact),
     list |-> MarkInvalid(memories, target_fact, t)]

\* an update that rewrites the text of the matching records
UpdateBody_InPlace(memories, old_fact, new_rec, t) ==
    [write |-> TRUE,
     list |-> [i \in 1 .. Len(memories) |->
                 IF Matches(memories[i], old_fact)
                 THEN [memories[i] EXCEPT !.fact = new_rec.fact]
                 ELSE memories[i]]]

UpdateBody(memories, old_fact, new_rec, t) ==
    [write |-> TRUE, list |-> Append(MarkInvalid(memories, old_fact, t), new_rec)]

\* a prune that takes a t_invalid it cannot parse for an old one
PruneDrops_ParseFailureDrops(m, cutoff) ==
    m.t_invalid # NONE /\ m.t_invalid < cutoff

\* prune_invalidated, lines 405-413: a record is dropped when its t_invalid
\* is set, parses, and is earlier than the cutoff
PruneDrops(m, cutoff) ==
    m.t_invalid \notin {NONE, UNPARSABLE} /\ m.t_invalid < cutoff

PruneInvalidatedBody(memories, max_age, t) ==
    LET Keep(m) == ~PruneDrops(m, t - max_age)
    IN  [write |-> \E i \in 1 .. Len(memories) : PruneDrops(memories[i], t - max_age),
         list |-> SelectSeq(memories, Keep)]

\* 1000 * exp(-n / REINFORCE_N), n = 0 .. 20
ExpNegTable == <<1000, 819, 670, 549, 449, 368, 301, 247, 202, 165, 135, 111, 91, 74, 61, 50, 41, 33, 27, 22, 18>>
ExpNegMilli(n) == IF n + 1 <= Len(ExpNegTable) THEN ExpNegTable[n + 1] ELSE 0

Min(a, b) == IF a <= b THEN a ELSE b
Max(a, b) == IF a >= b THEN a ELSE b

\* a reinforcement that does not count the access
reinforce_on_access_StaleCount(m, t) ==
    LET v == m.decay_strength
        n == m.access_count
        boost == (REINFORCE_DELTA_PCT * (1000 - v) * ExpNegMilli(n)) \div 100000
    IN  [m EXCEPT !.decay_strength = Min(1000, v + boost)]

\* memory-scorer.py reinforce_on_access
reinforce_on_access(m, t) ==
    LET v == m.decay_strength
        n == m.access_count
        boost == (REINFORCE_DELTA_PCT * (1000 - v) * ExpNegMilli(n)) \div 100000
    IN  [m EXCEPT !.decay_strength = Min(1000, v + boost),
                  !.access_count = n + 1]

\* memory-scorer.py cmd_reinforce, lines 263-275
ReinforceBody(memories, fact, t) ==
    [write |-> \E i \in 1 .. Len(memories) : Matches(memories[i], fact),
     list |-> [i \in 1 .. Len(memories) |->
                 IF Matches(memories[i], fact)
                 THEN reinforce_on_access(memories[i], t)
                 ELSE memories[i]]]

\* compute_decay_strength(importance / 10, minutes / 1440) < PRUNE_THRESHOLD:
\* the first whole minute of age at which exp(-lambda_i * d^beta) < 0.05
PruneAgeMinutes ==
    <<28918, 34163, 40358, 47678, 56325, 66539, 580774, 745728, 957534, 1229497>>

StrengthBelowThreshold(m, t) ==
    /\ t - m.created_at > 0
    /\ t - m.created_at >= PruneAgeMinutes[m.importance]

\* the elapsed days of DecayTable's columns
DecayDays == <<1, 2, 3, 5, 7, 14, 30, 60, 90, 180, 365>>

\* 1000 * exp(-lambda_i * d^beta), rounded down, with
\* lambda_i = LAMBDA_BASE * exp(-MU * importance / 10) and beta = BETA_LTM
\* from importance 7 on, BETA_STM below: one row per importance 1 .. 10,
\* one column per entry of DecayDays
DecayTable ==
    <<<<921, 828, 736, 568, 429, 143, 7, 0, 0, 0, 0>>,
      <<935, 857, 778, 629, 500, 203, 18, 0, 0, 0, 0>>,
      <<946, 881, 814, 684, 567, 271, 38, 0, 0, 0, 0>>,
      <<956, 901, 845, 733, 628, 344, 69, 2, 0, 0, 0>>,
      <<963, 918, 871, 775, 683, 417, 113, 6, 0, 0, 0>>,
      <<970, 933, 893, 812, 732, 489, 167, 16, 1, 0, 0>>,
      <<975, 957, 942, 914, 889, 815, 687, 520, 405, 207, 62>>,
      <<980, 965, 952, 929, 908, 846, 735, 586, 477, 276, 103>>,
      <<983, 971, 960, 941, 924, 872, 777, 645, 546, 348, 156>>,
      <<986, 976, 967, 952, 937, 894, 814, 699, 609, 422, 219>>>>

\* math.exp(-lambda_i * (days_elapsed ** beta)) in thousandths
DecayExp(importance, days) ==
    DecayTable[importance][CHOOSE k \in 1 .. Len(DecayDays) : DecayDays[k] = days]

\* a strength that starts at nothing
compute_decay_strength_ZeroAtStart(importance, days) ==
    IF days <= 0
    THEN 0
    ELSE Max(0, Min(1000, DecayExp(importance, days)))

\* hot_memory_store.py compute_decay_strength, in thousandths, for an
\* importance of 1 .. 10 (importance_normalized 0.1 .. 1.0)
compute_decay_strength(importance, days) ==
    IF days <= 0
    THEN 1000
    ELSE Max(0, Min(1000, DecayExp(importance, days)))

\* memory-scorer.py cmd_prune, lines 345-381
ScorerPruneBody(memories, dry_run, t) ==
    LET Keep(m) == ~StrengthBelowThreshold(m, t)
    IN  [write |-> /\ memories # <<>>
                   /\ \E i \in 1 .. Len(memories) : StrengthBelowThreshold(memories[i], t)
                   /\ ~dry_run,
         list |-> SelectSeq(memories, Keep)]

\* memory-extractor.py deduplicate_hot_memories, lines 823-837: `seen` keeps
\* the position of the first record of each normalised fact and the record
\* with the newest created_at
RECURSIVE DedupFold(_, _, _)
DedupFold(memories, i, seen) ==
    IF i > Len(memories) THEN seen
    ELSE LET m == memories[i]
             hit == {j \in 1 .. Len(seen) : NormFact(seen[j]) = NormFact(m)}
         IN  IF NormFact(m) = <<>> THEN DedupFold(memories, i + 1, seen)
             ELSE IF hit = {} THEN DedupFold(memories, i + 1, Append(seen, m))
             ELSE LET j == CHOOSE j \in hit : TRUE
                  IN  IF m.created_at > seen[j].created_at
                      THEN DedupFold(memories, i + 1, [seen EXCEPT ![j] = m])
                      ELSE DedupFold(memories, i + 1, seen)

DedupBody(memories) ==
    LET deduped == DedupFold(memories, 1, <<>>)
    IN  [write |-> memories # <<>> /\ Len(memories) - Len(deduped) > 0,
         list |-> deduped]

\* memory-linter.py auto_fix_memories, restricted to the fields of the model:
\* a missing entities key becomes [], an invalid category becomes "general"
auto_fix_record(m) ==
    [m EXCEPT !.entities = IF m.entities = NONE THEN 0 ELSE m.entities,
              !.category = IF m.category \in VALID_CATEGORIES
                           THEN m.category ELSE "general"]

\* a fix that also cleans the list of its invalidated records
auto_fix_memories_DropsInvalid(memories) ==
    LET kept == SelectSeq(memories, IsValid)
    IN  [i \in 1 .. Len(kept) |-> auto_fix_record(kept[i])]

auto_fix_memories(memories) ==
    [i \in 1 .. Len(memories) |-> auto_fix_record(memories[i])]

\* main of memory-linter.py, lines 519-522: written only if an action was taken
LinterFixBody(memories) ==
    [write |-> auto_fix_memories(memories) # memories,
     list |-> auto_fix_memories(memories)]

-----------------------------------------------------------------------------
(* Failure tracking (hot_memory_store.py, record_failure and               *)
(* record_success over extractor-failures.json)                            *)

\* COMPONENT_NAME of memory-extractor.py and one other caller
Components == {"memory-extractor", "weekly-reflection"}

\* _read_failure_data when there is no file: {}
NoData == [failures |-> <<>>, history |-> <<>>]

\* the keys of data["failures"]
Tracked(data) == {c \in Components : \E i \in 1 .. Len(data.failures) :
                                        data.failures[i].component = c}

\* data["failures"][component]
EntryOf(data, c) ==
    LET i == CHOOSE i \in 1 .. Len(data.failures) : data.failures[i].component = c
    IN  data.failures[i]

\* setdefault(component, {"count": 0, "last_error": "", "first_at": ""})
NewEntry(c) == [component |-> c, count |-> 0, first_at |-> NONE, last_at |-> NONE]

\* record_failure, lines 431-439: the entry as written into `data`
FailureEntry(data, c, t) ==
    LET entry == IF c \in Tracked(data) THEN EntryOf(data, c) ELSE NewEntry(c)
    IN  [entry EXCEPT !.count = entry.count + 1,
                      !.last_at = t,
                      !.first_at = IF entry.first_at = NONE THEN t ELSE entry.first_at]

\* record_failure, lines 431-441: `data` as handed to _write_failure_data
record_failure(data, c, t) ==
    [data EXCEPT !.failures =
        IF c \in Tracked(data)
        THEN [i \in 1 .. Len(data.failures) |->
                 IF data.failures[i].component = c
                 THEN FailureEntry(data, c, t)
                 ELSE data.failures[i]]
        ELSE Append(data.failures, FailureEntry(data, c, t))]

\* record_success, lines 463-470, for a tracked component
record_success(data, c, t) ==
    LET entry == [component |-> c,
                  count |-> EntryOf(data, c).count,
                  first_at |-> EntryOf(data, c).first_at,
                  last_at |-> EntryOf(data, c).last_at,
                  recovered_at |-> t]
        history == Append(data.history, entry)
    IN  [failures |-> SelectSeq(data.failures, LAMBDA e : e.component # c),
         history |-> IF Len(history) > HISTORY_CAP
                     THEN LastN(history, HISTORY_CAP)
                     ELSE history]

\* the count a reader of the file finds for a component (0: no active entry)
CountOf(data, c) == IF c \in Tracked(data) THEN EntryOf(data, c).count ELSE 0

\* no linter run yet
NoLint ==
    [runs |-> 0, strict |-> FALSE, fix |-> FALSE, unreadable |-> FALSE,
     linted |-> <<>>, dup |-> {}, cat |-> {}, issues |-> FALSE, exit |-> NONE]

\* no call of compute_decay_strength has been made
NoDecay == [calls |-> 0, importance |-> NONE, d1 |-> NONE, s1 |-> NONE,
            d2 |-> NONE, s2 |-> NONE]

\* no call of call_claude has been made
NoCall == [calls |-> 0, pc |-> "idle", attempt |-> 0, outcomes |-> <<>>,
           result |-> "none"]

CallIdle ==
    /\ decay = NoDecay
    /\ api = NoCall

HealthIdle ==
    /\ failure_data = NoData
    /\ sent = <<>>
    /\ recorded = [c \in Components |-> 0]
    /\ health_calls = 0

-----------------------------------------------------------------------------
(* Store commands as processes.  A command is started, takes the lock,     *)
(* reads, computes, and goes through write_hot_memories step by step.      *)

NoRec == MkRec(0, <<>>, FALSE, 0, 1, "general", 0)
NoOp == [kind |-> "none", text |-> <<>>, rec |-> NoRec, dry |-> FALSE,
         other |-> FALSE]

Cmd(k, txt, r, d, o) == [kind |-> k, text |-> txt, rec |-> r, dry |-> d, other |-> o]

\* the locals of an extractor process that has not been invoked
NoRun == [force |-> FALSE, dry_run |-> FALSE, logs |-> "none", phase1 |-> "none",
          candidates |-> <<>>, results |-> <<>>, errors |-> 0, queries |-> 0,
          calls |-> 0, exit |-> NONE, store_at_start |-> <<>>,
          marker_at_start |-> NONE]

\* no extractor has run yet
PipeIdle ==
    /\ marker = NONE
    /\ instHolders = {}
    /\ run = [p \in Procs |-> NoRun]
    /\ HealthIdle
    /\ lint = NoLint
    /\ CallIdle

\* texts the commands are called with
T_tea == <<"T", "e", "a">>
T_tea_lc == <<"t", "e", "a", " ">>
T_ea == <<"E", "A">>
T_bee == <<"b", "e", "e">>
MatchTexts == {T_ea, T_bee}
Instants == {60, 3000, 46200}

\* a lock that is granted whoever holds it
LockFree_Always == TRUE

\* flock(fd, LOCK_EX | LOCK_NB) succeeds

LockFree == lockHolders = {}

\* process numbers are interchangeable: the lowest idle one starts next
Idle(p) ==
    /\ pc[p] = "idle"
    /\ \A q \in Procs : q < p => pc[q] # "idle"
    /\ started < MaxStarted

\* a command is called and hot_memory_lock() returns at once
Begin(p, o) ==
    /\ Idle(p)
    /\ LockFree
    /\ lockHolders' = lockHolders \cup {p}
    /\ pc' = [pc EXCEPT ![p] = "locked"]
    /\ op' = [op EXCEPT ![p] = o]
    /\ started' = started + 1

\* weekly-reflection.py store_reflection_memory: a pinned record without an
\* entities key
StartReflection(p) ==
    \E f \in {T_tea_lc, T_bee} :
        /\ Begin(p, Cmd("append", <<>>,
                 MkRec(nextId, f, TRUE, now, REFLECTION_IMPORTANCE, "reflection", NONE),
                 FALSE, FALSE))
        /\ nextId' = nextId + 1
        /\ UNCHANGED <<store, archive, now, snap, mem, target, evict, tmp>>
        /\ UNCHANGED pipeVars

\* append_hot_memory as called with build_memory_metadata (extractor ADD)
StartAppend(p) ==
    \E f \in {T_tea_lc, T_bee} :
        /\ Begin(p, Cmd("append", <<>>,
                 MkRec(nextId, f, FALSE, now, 1, "preference", 1), FALSE, FALSE))
        /\ nextId' = nextId + 1
        /\ UNCHANGED <<store, archive, now, snap, mem, target, evict, tmp>>
        /\ UNCHANGED pipeVars

StartInvalidate(p) ==
    \E t \in MatchTexts :
        /\ Begin(p, Cmd("invalidate", t, NoRec, FALSE, FALSE))
        /\ UNCHANGED <<store, archive, now, nextId, snap, mem, target, evict, tmp>>
        /\ UNCHANGED pipeVars

StartUpdate(p) ==
    \E t \in MatchTexts :
        /\ Begin(p, Cmd("update", t,
                 MkRec(nextId, T_tea, FALSE, now, 6, "preference", 1), FALSE, FALSE))
        /\ nextId' = nextId + 1
        /\ UNCHANGED <<store, archive, now, snap, mem, target, evict, tmp>>
        /\ UNCHANGED pipeVars

StartPruneInvalidated(p) ==
    /\ Begin(p, Cmd("prune", <<>>, NoRec, FALSE, FALSE))
    /\ UNCHANGED <<store, archive, now, nextId, snap, mem, target, evict, tmp>>
    /\ UNCHANGED pipeVars

StartReinforce(p) ==
    /\ Begin(p, Cmd("reinforce", T_ea, NoRec, FALSE, FALSE))
    /\ UNCHANGED <<store, archive, now, nextId, snap, mem, target, evict, tmp>>
    /\ UNCHANGED pipeVars

StartScorerPrune(p) ==
    \E d \in BOOLEAN :
        /\ Begin(p, Cmd("scorer_prune", <<>>, NoRec, d, FALSE))
        /\ UNCHANGED <<store, archive, now, nextId, snap, mem, target, evict, tmp>>
        /\ UNCHANGED pipeVars

StartDedup(p) ==
    /\ Begin(p, Cmd("dedup", <<>>, NoRec, FALSE, FALSE))
    /\ UNCHANGED <<store, archive, now, nextId, snap, mem, target, evict, tmp>>
    /\ UNCHANGED pipeVars

\* memory-linter.py run_lint over the fields of the model; the checks over
\* fields the model does not carry are the input `other`
LintIssues(memories, t) ==
    \E i \in 1 .. Len(memories) :
        \/ memories[i].entities \in {NONE, 0}
        \/ memories[i].category \notin VALID_CATEGORIES
        \/ Len(memories[i].fact) < MIN_FACT_LENGTH
        \/ (memories[i].access_count = 0
              /\ memories[i].created_at < t - STALENESS_DAYS * 1440)

\* memory-linter.py main with --fix, lines 499-516: the lint that decides to
\* fix runs on a read made without the lock
StartLinterFix(p) ==
    \E o \in BOOLEAN :
        /\ Idle(p)
        /\ read_hot_memories(store) # <<>>
        /\ (o \/ LintIssues(read_hot_memories(store), now))
        /\ pc' = [pc EXCEPT ![p] = "acquire"]
        /\ op' = [op EXCEPT ![p] = Cmd("linter_fix", <<>>, NoRec, FALSE, o)]
        /\ started' = started + 1
        /\ UNCHANGED <<store, archive, lockHolders, now, nextId, snap, mem, target,
                       evict, tmp>>
        /\ UNCHANGED pipeVars

\* a lock that is taken without looking at its holders
Acquire_NoWait(p) ==
    /\ pc[p] = "acquire"
    /\ lockHolders' = lockHolders \cup {p}
    /\ pc' = [pc EXCEPT ![p] = "locked"]
    /\ UNCHANGED <<store, archive, now, nextId, op, snap, mem, target, evict, tmp,
                   started>>
    /\ UNCHANGED pipeVars

\* memory-linter.py line 516: hot_memory_lock() returns
Acquire(p) ==
    /\ pc[p] = "acquire"
    /\ LockFree
    /\ lockHolders' = lockHolders \cup {p}
    /\ pc' = [pc EXCEPT ![p] = "locked"]
    /\ UNCHANGED <<store, archive, now, nextId, op, snap, mem, target, evict, tmp,
                   started>>
    /\ UNCHANGED pipeVars

\* a hot_memory_lock without a deadline (a blocking flock)
LockTimeout_Blocking(p) ==
    /\ FALSE
    /\ UNCHANGED storeVars
    /\ UNCHANGED pipeVars

\* hot_memory_lock, lines 134-139: the deadline passes while another process
\* holds the lock; TimeoutError ends the command, whichever it is
LockTimeout(p) ==
    /\ (Idle(p) \/ pc[p] = "acquire")
    /\ ~LockFree
    /\ pc' = [pc EXCEPT ![p] = "idle"]
    /\ op' = [op EXCEPT ![p] = NoOp]
    /\ started' = IF pc[p] = "idle" THEN started + 1 ELSE started
    /\ UNCHANGED <<store, archive, lockHolders, now, nextId, snap, mem, target,
                   evict, tmp>>
    /\ UNCHANGED pipeVars

BodyOf(o, memories, t) ==
    CASE o.kind = "append" -> AppendBody(memories, o.rec)
      [] o.kind = "invalidate" -> InvalidateBody(memories, o.text, t)
      [] o.kind = "update" -> UpdateBody(memories, o.text, o.rec, t)
      [] o.kind = "prune" -> PruneInvalidatedBody(memories, PRUNE_DEFAULT_MINUTES, t)
      [] o.kind = "reinforce" -> ReinforceBody(memories, o.text, t)
      [] o.kind = "scorer_prune" -> ScorerPruneBody(memories, o.dry, t)
      [] o.kind = "dedup" -> DedupBody(memories)
      [] o.kind = "linter_fix" ->
            [write |-> o.other \/ LinterFixBody(memories).write,
             list |-> LinterFixBody(memories).list]

\* the part of a command between hot_memory_lock() and write_hot_memories()
Body(p) ==
    /\ pc[p] = "locked"
    /\ snap' = [snap EXCEPT ![p] = read_hot_memories(store)]
    /\ LET r == BodyOf(op[p], read_hot_memories(store), now)
       IN  IF r.write
           THEN /\ mem' = [mem EXCEPT ![p] = r.list]
                /\ pc' = [pc EXCEPT ![p] = "w_cap"]
           ELSE /\ mem' = mem
                /\ pc' = [pc EXCEPT ![p] = "unlock"]
    /\ UNCHANGED <<store, archive, lockHolders, now, nextId, op, target, evict, tmp,
                   started>>
    /\ UNCHANGED pipeVars

\* the code between the read and the write raises (a stored fact that is not
\* a string fails in .strip(), .lower() or `in`): the exception leaves the
\* command through its finally clause
BodyRaises(p) ==
    /\ pc[p] = "locked"
    /\ snap' = [snap EXCEPT ![p] = read_hot_memories(store)]
    /\ pc' = [pc EXCEPT ![p] = "unlock"]
    /\ UNCHANGED <<store, archive, lockHolders, now, nextId, op, mem, target,
                   evict, tmp, started>>
    /\ UNCHANGED pipeVars

-----------------------------------------------------------------------------
(* write_hot_memories, step by step                                        *)

\* how many lines _archive_evicted gets written: all, or none when opening
\* the archive raises OSError (caught and logged at lines 204-205)
ArchiveOutcomes(evicted) == {0, Len(evicted)}

\* lines 213-229: split, cap, archive what is evicted
WriteCap(p) ==
    /\ pc[p] = "w_cap"
    /\ \E kp \in ArchiveOutcomes(PinnedEvicted(mem[p])),
          ku \in ArchiveOutcomes(UnpinnedEvicted(mem[p])) :
          archive' = ArchiveAppend(
                         ArchiveAppend(archive, PinnedEvicted(mem[p]), kp, now),
                         UnpinnedEvicted(mem[p]), ku, now)
    /\ evict' = [evict EXCEPT ![p] = PinnedEvicted(mem[p]) \o UnpinnedEvicted(mem[p])]
    /\ target' = [target EXCEPT ![p] = Capped(mem[p])]
    /\ pc' = [pc EXCEPT ![p] = "w_tmp"]
    /\ UNCHANGED <<store, lockHolders, now, nextId, op, snap, mem, tmp, started>>
    /\ UNCHANGED pipeVars

\* lines 233-236: tempfile.mkstemp creates an empty sibling file
WriteTmpCreate(p) ==
    /\ pc[p] = "w_tmp"
    /\ tmp' = [tmp EXCEPT ![p] = <<>>]
    /\ pc' = [pc EXCEPT ![p] = "w_lines"]
    /\ UNCHANGED <<store, archive, lockHolders, now, nextId, op, snap, mem, target,
                   evict, started>>
    /\ UNCHANGED pipeVars

\* mkstemp raises OSError: logged at line 249, nothing written
WriteTmpCreateFail(p) ==
    /\ pc[p] = "w_tmp"
    /\ pc' = [pc EXCEPT ![p] = "unlock"]
    /\ UNCHANGED <<store, archive, lockHolders, now, nextId, op, snap, mem, target,
                   evict, tmp, started>>
    /\ UNCHANGED pipeVars

\* a writer that truncates the store file and writes into it
WriteTmpLines_InPlace(p) ==
    /\ pc[p] = "w_lines"
    /\ \E k \in {0, Len(target[p]) \div 2, Len(target[p])} :
          store' = SubSeq(target[p], 1, k)
    /\ tmp' = [tmp EXCEPT ![p] = target[p]]
    /\ pc' = [pc EXCEPT ![p] = "w_rename"]
    /\ UNCHANGED <<archive, lockHolders, now, nextId, op, snap, mem, target, evict,
                   started>>
    /\ UNCHANGED pipeVars

\* lines 238-240: every line is written to the temporary file
WriteTmpLines(p) ==
    /\ pc[p] = "w_lines"
    /\ store' = store
    /\ tmp' = [tmp EXCEPT ![p] = target[p]]
    /\ pc' = [pc EXCEPT ![p] = "w_rename"]
    /\ UNCHANGED <<archive, lockHolders, now, nextId, op, snap, mem, target, evict,
                   started>>
    /\ UNCHANGED pipeVars

\* the write raises half way (disk full): the handler at 242-247 runs next
WriteTmpLinesFail(p) ==
    /\ pc[p] = "w_lines"
    /\ target[p] # <<>>
    /\ tmp' = [tmp EXCEPT ![p] = SubSeq(target[p], 1, Len(target[p]) \div 2)]
    /\ pc' = [pc EXCEPT ![p] = "w_cleanup"]
    /\ UNCHANGED <<store, archive, lockHolders, now, nextId, op, snap, mem, target,
                   evict, started>>
    /\ UNCHANGED pipeVars

\* line 241: os.replace puts the temporary file in the store's place
WriteRename(p) ==
    /\ pc[p] = "w_rename"
    /\ store' = tmp[p]
    /\ tmp' = [tmp EXCEPT ![p] = NoFile]
    /\ pc' = [pc EXCEPT ![p] = "unlock"]
    /\ UNCHANGED <<archive, lockHolders, now, nextId, op, snap, mem, target, evict,
                   started>>
    /\ UNCHANGED pipeVars

\* os.replace raises: the handler at 242-247 runs next
WriteRenameFail(p) ==
    /\ pc[p] = "w_rename"
    /\ pc' = [pc EXCEPT ![p] = "w_cleanup"]
    /\ UNCHANGED <<store, archive, lockHolders, now, nextId, op, snap, mem, target,
                   evict, tmp, started>>
    /\ UNCHANGED pipeVars

\* lines 242-249: unlink the temporary file, log the error
WriteCleanup(p) ==
    /\ pc[p] = "w_cleanup"
    /\ tmp' = [tmp EXCEPT ![p] = NoFile]
    /\ pc' = [pc EXCEPT ![p] = "unlock"]
    /\ UNCHANGED <<store, archive, lockHolders, now, nextId, op, snap, mem, target,
                   evict, started>>
    /\ UNCHANGED pipeVars

\* a command that returns without releasing its flock
Unlock_KeepsLock(p) ==
    /\ pc[p] = "unlock"
    /\ op[p].kind # "write_all"
    /\ pc' = [pc EXCEPT ![p] = "idle"]
    /\ op' = [op EXCEPT ![p] = NoOp]
    /\ snap' = [snap EXCEPT ![p] = <<>>]
    /\ mem' = [mem EXCEPT ![p] = <<>>]
    /\ target' = [target EXCEPT ![p] = <<>>]
    /\ evict' = [evict EXCEPT ![p] = <<>>]
    /\ UNCHANGED <<store, archive, lockHolders, now, nextId, tmp, started>>
    /\ UNCHANGED pipeVars

\* hot_memory_unlock in the command's finally clause
Unlock(p) ==
    /\ pc[p] = "unlock"
    /\ op[p].kind # "write_all"
    /\ lockHolders' = lockHolders \ {p}
    /\ pc' = [pc EXCEPT ![p] = "idle"]
    /\ op' = [op EXCEPT ![p] = NoOp]
    /\ snap' = [snap EXCEPT ![p] = <<>>]
    /\ mem' = [mem EXCEPT ![p] = <<>>]
    /\ target' = [target EXCEPT ![p] = <<>>]
    /\ evict' = [evict EXCEPT ![p] = <<>>]
    /\ UNCHANGED <<store, archive, now, nextId, tmp, started>>
    /\ UNCHANGED pipeVars

InWrite(p) == pc[p] \in {"w_cap", "w_tmp", "w_lines", "w_rename", "w_cleanup"}
BeforeRename(p) == pc[p] \in {"w_cap", "w_tmp", "w_lines", "w_rename"}

\* the process is killed inside a command: the kernel drops its flock, its
\* temporary file stays behind
Crash(p) ==
    /\ pc[p] \in {"locked", "w_cap", "w_tmp", "w_lines", "w_rename", "w_cleanup",
                  "unlock"}
    /\ lockHolders' = lockHolders \ {p}
    /\ pc' = [pc EXCEPT ![p] = "dead"]
    /\ op' = [op EXCEPT ![p] = NoOp]
    /\ snap' = [snap EXCEPT ![p] = <<>>]
    /\ mem' = [mem EXCEPT ![p] = <<>>]
    /\ target' = [target EXCEPT ![p] = <<>>]
    /\ evict' = [evict EXCEPT ![p] = <<>>]
    /\ UNCHANGED <<store, archive, now, nextId, tmp, started>>
    /\ UNCHANGED pipeVars

\* the clock moves on between commands
Tick ==
    /\ lockHolders = {}
    /\ \E t \in Instants : t > now /\ now' = t
    /\ UNCHANGED <<store, archive, lockHolders, nextId, pc, op, snap, mem, target,
                   evict, tmp, started>>
    /\ UNCHANGED pipeVars

-----------------------------------------------------------------------------
(* The store with concurrent commands                                      *)

\* stores the commands above produce: built by appends, one invalidated
InitStores ==
    { <<>>,
      <<MkRec(1, T_tea, FALSE, 0, 1, "preference", 1)>>,
      <<MkRec(1, T_tea, TRUE, 0, 8, "reflection", NONE),
        [MkRec(2, T_bee, FALSE, 0, 6, "preference", 1) EXCEPT !.t_invalid = 0]>> }

StoreInit ==
    /\ store \in InitStores
    /\ archive = <<>>
    /\ lockHolders = {}
    /\ now = 60
    /\ nextId = 10
    /\ pc = [p \in Procs |-> "idle"]
    /\ op = [p \in Procs |-> NoOp]
    /\ snap = [p \in Procs |-> <<>>]
    /\ mem = [p \in Procs |-> <<>>]
    /\ target = [p \in Procs |-> <<>>]
    /\ evict = [p \in Procs |-> <<>>]
    /\ tmp = [p \in Procs |-> NoFile]
    /\ started = 0
    /\ PipeIdle

StoreNext ==
    \/ \E p \in Procs : StartReflection(p)
    \/ \E p \in Procs : StartAppend(p)
    \/ \E p \in Procs : StartInvalidate(p)
    \/ \E p \in Procs : StartUpdate(p)
    \/ \E p \in Procs : StartPruneInvalidated(p)
    \/ \E p \in Procs : StartReinforce(p)
    \/ \E p \in Procs : StartScorerPrune(p)
    \/ \E p \in Procs : StartDedup(p)
    \/ \E p \in Procs : StartLinterFix(p)
    \/ \E p \in Procs : Acquire(p)
    \/ \E p \in Procs : LockTimeout(p)
    \/ \E p \in Procs : Body(p)
    \/ \E p \in Procs : BodyRaises(p)
    \/ \E p \in Procs : WriteCap(p)
    \/ \E p \in Procs : WriteTmpCreate(p)
    \/ \E p \in Procs : WriteTmpCreateFail(p)
    \/ \E p \in Procs : WriteTmpLines(p)
    \/ \E p \in Procs : WriteTmpLinesFail(p)
    \/ \E p \in Procs : WriteRename(p)
    \/ \E p \in Procs : WriteRenameFail(p)
    \/ \E p \in Procs : WriteCleanup(p)
    \/ \E p \in Procs : Unlock(p)
    \/ \E p \in Procs : Crash(p)
    \/ Tick

SpecStore == StoreInit /\ [][StoreNext]_storeVars

\* append_hot_memory as the only command (its two callers)
AppendNext ==
    \/ \E p \in Procs : StartReflection(p)
    \/ \E p \in Procs : StartAppend(p)
    \/ \E p \in Procs : LockTimeout(p)
    \/ \E p \in Procs : Body(p)
    \/ \E p \in Procs : WriteCap(p)
    \/ \E p \in Procs : WriteTmpCreate(p)
    \/ \E p \in Procs : WriteTmpCreateFail(p)
    \/ \E p \in Procs : WriteTmpLines(p)
    \/ \E p \in Procs : WriteTmpLinesFail(p)
    \/ \E p \in Procs : WriteRename(p)
    \/ \E p \in Procs : WriteRenameFail(p)
    \/ \E p \in Procs : WriteCleanup(p)
    \/ \E p \in Procs : Unlock(p)
    \/ \E p \in Procs : Crash(p)
    \/ Tick

SpecAppend == StoreInit /\ [][AppendNext]_storeVars

\* append_hot_memory enters hot_memory_lock (lines 127-129: the lock file is
\* opened, the deadline set), whoever holds the lock
RequestAppend(p) ==
    \E f \in {T_tea_lc, T_bee} :
        /\ Idle(p)
        /\ pc' = [pc EXCEPT ![p] = "acquire"]
        /\ op' = [op EXCEPT ![p] = Cmd("append", <<>>,
                      MkRec(nextId, f, FALSE, now, 1, "preference", 1), FALSE, FALSE)]
        /\ nextId' = nextId + 1
        /\ started' = started + 1
        /\ UNCHANGED <<store, archive, lockHolders, now, snap, mem, target, evict, tmp>>
        /\ UNCHANGED pipeVars

\* read_hot_memories called without the lock (the linter's lint pass, the
\* extractor's searches), line 172: open() binds the reader to the file that
\* is at the path now; a later os.replace puts another file at the path and
\* leaves this one as it is
ReadOpen(p) ==
    /\ Idle(p)
    /\ pc' = [pc EXCEPT ![p] = "reading"]
    /\ op' = [op EXCEPT ![p] = Cmd("read", <<>>, NoRec, FALSE, FALSE)]
    /\ snap' = [snap EXCEPT ![p] = store]
    /\ started' = started + 1
    /\ UNCHANGED <<store, archive, lockHolders, now, nextId, mem, target, evict, tmp>>
    /\ UNCHANGED pipeVars

\* a reader that finds a file cut short at some line
ReadReturn_Torn(p) ==
    /\ pc[p] = "reading"
    /\ \E k \in 0 .. Len(snap[p]) :
          mem' = [mem EXCEPT ![p] = read_hot_memories(SubSeq(snap[p], 1, k))]
    /\ pc' = [pc EXCEPT ![p] = "read_done"]
    /\ UNCHANGED <<store, archive, lockHolders, now, nextId, op, snap, target, evict,
                   tmp, started>>
    /\ UNCHANGED pipeVars

\* lines 173-184: the lines of the opened file are parsed and returned; the
\* reading process goes on with the list and ends
ReadReturn(p) ==
    /\ pc[p] = "reading"
    /\ mem' = [mem EXCEPT ![p] = read_hot_memories(snap[p])]
    /\ pc' = [pc EXCEPT ![p] = "read_done"]
    /\ UNCHANGED <<store, archive, lockHolders, now, nextId, op, snap, target, evict,
                   tmp, started>>
    /\ UNCHANGED pipeVars

\* commands that wait for the lock in the loop of hot_memory_lock, and
\* readers that do not take it
WaitNext ==
    \/ \E p \in Procs : RequestAppend(p)
    \/ \E p \in Procs : ReadOpen(p)
    \/ \E p \in Procs : ReadReturn(p)
    \/ \E p \in Procs : Acquire(p)
    \/ \E p \in Procs : LockTimeout(p)
    \/ \E p \in Procs : Body(p)
    \/ \E p \in Procs : WriteCap(p)
    \/ \E p \in Procs : WriteTmpCreate(p)
    \/ \E p \in Procs : WriteTmpCreateFail(p)
    \/ \E p \in Procs : WriteTmpLines(p)
    \/ \E p \in Procs : WriteTmpLinesFail(p)
    \/ \E p \in Procs : WriteRename(p)
    \/ \E p \in Procs : WriteRenameFail(p)
    \/ \E p \in Procs : WriteCleanup(p)
    \/ \E p \in Procs : Unlock(p)
    \/ \E p \in Procs : Crash(p)

\* the loop of hot_memory_lock (lines 130-140) tries the flock every 0.1 s
\* and compares the monotonic clock with its deadline: a process inside it
\* goes on to one of its two exits
SpecWait ==
    /\ StoreInit
    /\ [][WaitNext]_storeVars
    /\ \A p \in Procs : WF_storeVars(Acquire(p) \/ LockTimeout(p))

\* the commands that invalidate, replace and prune records.  The last store
\* is one found at minute 3000: a record invalidated at minute 0, one whose
\* t_invalid is no timestamp, one invalidated exactly 24 hours ago, a valid
\* one.  Two records carry a decay_strength below 1.0, which the programs
\* here never write at creation but read from the file as they find it.
EditInitStores ==
    { <<<<>>, 60>>,
      <<<<[MkRec(1, T_tea, FALSE, 0, 1, "preference", 1)
              EXCEPT !.decay_strength = 400]>>, 60>>,
      <<<<MkRec(1, T_tea, TRUE, 0, 8, "reflection", NONE),
          [MkRec(2, T_bee, FALSE, 0, 6, "preference", 1) EXCEPT !.t_invalid = 0]>>, 60>>,
      <<<<[MkRec(1, T_tea, FALSE, 0, 6, "preference", 1) EXCEPT !.t_invalid = 0],
          [MkRec(2, T_bee, FALSE, 0, 6, "preference", 1) EXCEPT !.t_invalid = UNPARSABLE],
          [MkRec(3, T_tea_lc, FALSE, 0, 6, "preference", 1)
              EXCEPT !.t_invalid = 3000 - PRUNE_DEFAULT_MINUTES,
                     !.decay_strength = 0, !.access_count = 3],
          MkRec(4, T_bee, FALSE, 0, 6, "preference", 1)>>, 3000>> }

EditInit ==
    /\ \E e \in EditInitStores : store = e[1] /\ now = e[2]
    /\ archive = <<>>
    /\ lockHolders = {}
    /\ nextId = 10
    /\ pc = [p \in Procs |-> "idle"]
    /\ op = [p \in Procs |-> NoOp]
    /\ snap = [p \in Procs |-> <<>>]
    /\ mem = [p \in Procs |-> <<>>]
    /\ target = [p \in Procs |-> <<>>]
    /\ evict = [p \in Procs |-> <<>>]
    /\ tmp = [p \in Procs |-> NoFile]
    /\ started = 0
    /\ PipeIdle

EditNext ==
    \/ \E p \in Procs : StartInvalidate(p)
    \/ \E p \in Procs : StartUpdate(p)
    \/ \E p \in Procs : StartPruneInvalidated(p)
    \/ \E p \in Procs : LockTimeout(p)
    \/ \E p \in Procs : Body(p)
    \/ \E p \in Procs : WriteCap(p)
    \/ \E p \in Procs : WriteTmpCreate(p)
    \/ \E p \in Procs : WriteTmpCreateFail(p)
    \/ \E p \in Procs : WriteTmpLines(p)
    \/ \E p \in Procs : WriteTmpLinesFail(p)
    \/ \E p \in Procs : WriteRename(p)
    \/ \E p \in Procs : WriteRenameFail(p)
    \/ \E p \in Procs : WriteCleanup(p)
    \/ \E p \in Procs : Unlock(p)
    \/ \E p \in Procs : Crash(p)
    \/ Tick

SpecEdit == EditInit /\ [][EditNext]_storeVars

-----------------------------------------------------------------------------
(* write_hot_memories called directly, one call after the other (a new     *)
(* process takes over when the caller was killed), with lists of records   *)
(* of which only the pinned flag matters                                   *)

FillRec(i, p) == [id |-> i, pinned |-> p]

\* a pinned, then b unpinned, then c pinned records
Shape(a, b, c) == [i \in 1 .. (a + b + c) |-> FillRec(i, i <= a \/ i > a + b)]

InputLists(file, fresh) ==
    { Shape(0, 0, 0),
      Shape(MAX_PINNED_MEMORIES, MAX_HOT_MEMORIES - MAX_PINNED_MEMORIES, 0),
      Shape(MAX_PINNED_MEMORIES, MAX_HOT_MEMORIES - MAX_PINNED_MEMORIES + 1, 0),
      Shape(MAX_PINNED_MEMORIES, MAX_HOT_MEMORIES - MAX_PINNED_MEMORIES, 1),
      Shape(1, MAX_HOT_MEMORIES - MAX_PINNED_MEMORIES + 2, MAX_PINNED_MEMORIES + 1),
      Shape(MAX_PINNED_MEMORIES + 1, 0, 0),
      Shape(0, MAX_HOT_MEMORIES + 2, 0),
      Shape(0, 0, MAX_HOT_MEMORIES + 1),
      Append(file, FillRec(fresh, TRUE)),
      Append(file, FillRec(fresh, FALSE)) }

CallWriteAll(p) ==
    /\ pc[p] = "idle"
    /\ \A q \in Procs : q < p => pc[q] = "dead"
    /\ started < MaxCalls
    /\ \E l \in InputLists(store, nextId) : mem' = [mem EXCEPT ![p] = l]
    /\ nextId' = IF nextId \in Ids(mem'[p]) THEN nextId + 1 ELSE nextId
    /\ op' = [op EXCEPT ![p] = Cmd("write_all", <<>>, NoRec, FALSE, FALSE)]
    /\ snap' = [snap EXCEPT ![p] = store]
    /\ pc' = [pc EXCEPT ![p] = "w_cap"]
    /\ started' = started + 1
    /\ UNCHANGED <<store, archive, lockHolders, now, target, evict, tmp>>
    /\ UNCHANGED pipeVars

\* write_hot_memories returns to its caller
Return(p) ==
    /\ pc[p] = "unlock"
    /\ op[p].kind = "write_all"
    /\ pc' = [pc EXCEPT ![p] = "idle"]
    /\ op' = [op EXCEPT ![p] = NoOp]
    /\ snap' = [snap EXCEPT ![p] = <<>>]
    /\ mem' = [mem EXCEPT ![p] = <<>>]
    /\ target' = [target EXCEPT ![p] = <<>>]
    /\ evict' = [evict EXCEPT ![p] = <<>>]
    /\ UNCHANGED <<store, archive, lockHolders, now, nextId, tmp, started>>
    /\ UNCHANGED pipeVars

CapInit ==
    /\ store = <<>>
    /\ archive = <<>>
    /\ lockHolders = {}
    /\ now = 60
    /\ nextId = 1000
    /\ pc = [p \in Procs |-> "idle"]
    /\ op = [p \in Procs |-> NoOp]
    /\ snap = [p \in Procs |-> <<>>]
    /\ mem = [p \in Procs |-> <<>>]
    /\ target = [p \in Procs |-> <<>>]
    /\ evict = [p \in Procs |-> <<>>]
    /\ tmp = [p \in Procs |-> NoFile]
    /\ started = 0
    /\ PipeIdle

CapNext ==
    \/ \E p \in Procs : CallWriteAll(p)
    \/ \E p \in Procs : WriteCap(p)
    \/ \E p \in Procs : WriteTmpCreate(p)
    \/ \E p \in Procs : WriteTmpCreateFail(p)
    \/ \E p \in Procs : WriteTmpLines(p)
    \/ \E p \in Procs : WriteTmpLinesFail(p)
    \/ \E p \in Procs : WriteRename(p)
    \/ \E p \in Procs : WriteRenameFail(p)
    \/ \E p \in Procs : WriteCleanup(p)
    \/ \E p \in Procs : Return(p)
    \/ \E p \in Procs : Crash(p)

SpecCap == CapInit /\ [][CapNext]_storeVars

-----------------------------------------------------------------------------
(* The extraction pipeline (memory-extractor.py): pure parts                *)

HOT_PATH_IMPORTANCE_THRESHOLD == 5
MAX_ADDITIONS_PER_HOUR == 5
MIN_INTERVAL_MINUTES == 3
RATE_WINDOW_MINUTES == 60

\* facts the extraction returns, and the text an UPDATE response carries
F_tea_dusk ==
    <<"B", "e", "a", " ", "d", "r", "i", "n", "k", "s", " ", "t", "e", "a", " ", "a", "t", " ", "d", "u", "s", "k">>
F_tea_dawn ==
    <<"B", "e", "a", " ", "d", "r", "i", "n", "k", "s", " ", "t", "e", "a", " ", "a", "t", " ", "d", "a", "w", "n">>
F_bulbs ==
    <<"D", "e", "l", " ", "s", "e", "l", "l", "s", " ", "r", "e", "d", " ", "b", "u", "l", "b", "s", " ", "l", "a", "t", "e">>
F_question ==
    <<"d", "o", "e", "s", " ", "B", "e", "a", " ", "d", "r", "i", "n", "k", " ", "t", "e", "a", " ", "a", "t", " ", "a", "l", "l", "?">>

\* str.split(): the words of a text, in order
RECURSIVE SplitFrom(_, _, _)
SplitFrom(t, cur, acc) ==
    IF t = <<>> THEN (IF cur = <<>> THEN acc ELSE Append(acc, cur))
    ELSE IF Head(t) = " "
         THEN SplitFrom(Tail(t), <<>>, IF cur = <<>> THEN acc ELSE Append(acc, cur))
         ELSE SplitFrom(Tail(t), Append(cur, Head(t)), acc)

Split(t) == SplitFrom(t, <<>>, <<>>)

\* set(text.lower().split())
WordSet(t) == Range(Split(Lower(t)))

IsUpperChar(c) == LowerChar(c) # c

Cand(i, f, imp, cat, ent) ==
    [cid |-> i, fact |-> f, importance |-> imp, category |-> cat, entities |-> ent]

\* the identity of the first candidate object of the n-th invocation
FirstCid(n) == 10 * n + 1

\* what the extraction call can return as "facts"
CandidateLists(first) ==
    { <<Cand(first, F_tea_dusk, 7, "preference", 0)>>,
      <<Cand(first, F_bulbs, 5, "work", 1),
        Cand(first + 1, F_tea_dawn, 3, "habit", 1),
        Cand(first + 2, F_tea_dusk, 9, "preference", 2)>>,
      <<Cand(first, F_question, 8, "general", 1),
        Cand(first + 1, T_bee, 6, "general", 0)>>,
      <<Cand(first, F_bulbs, 4, "work", 1)>> }

\* line 611: the importance filter
IsHot(c) == c.importance >= HOT_PATH_IMPORTANCE_THRESHOLD
HotCandidates(candidates) == SelectSeq(candidates, IsHot)

\* lines 624-627: facts of the records that are not invalidated
IsLive(m) == IsValid(m) /\ m.fact # <<>>
ExistingHotFacts(memories) ==
    LET live == SelectSeq(memories, IsLive)
    IN  [i \in 1 .. Len(live) |-> live[i].fact]

\* validate_candidate, lines 297-306: word overlap above 60% of the smaller set
TooSimilar(fact_text, existing) ==
    LET fw == WordSet(fact_text)
        ew == WordSet(existing)
    IN  /\ fw # {}
        /\ ew # {}
        /\ 10 * Cardinality(fw \cap ew) > 6 * Min(Cardinality(fw), Cardinality(ew))

\* validate_candidate, lines 309-314: capitalised words become the entities
\* of a candidate that has none
Enriched(fact_text) ==
    LET IsName(w) == /\ Len(w) > 1
                     /\ IsUpperChar(w[1])
                     /\ w \notin {<<"T", "h", "e">>, <<"T", "h", "i", "s">>,
                                  <<"T", "h", "a", "t">>, <<"U", "s", "e", "r">>}
    IN  Min(5, Len(SelectSeq(Split(fact_text), IsName)))

validate_keep(c, existing_hot_facts) ==
    LET fact_text == Strip(c.fact)
    IN  /\ Len(fact_text) >= MIN_FACT_LENGTH
        /\ ~(RStrip(fact_text) # <<>> /\ RStrip(fact_text)[Len(RStrip(fact_text))] = "?")
        /\ \A i \in 1 .. Len(existing_hot_facts) :
              ~TooSimilar(fact_text, existing_hot_facts[i])

validate_candidate(c, existing_hot_facts) ==
    IF validate_keep(c, existing_hot_facts) /\ c.entities = 0
          /\ Enriched(Strip(c.fact)) > 0
    THEN [c EXCEPT !.entities = Enriched(Strip(c.fact))]
    ELSE c

\* lines 628-632
Validated(candidates, memories) ==
    LET Keep(c) == validate_keep(c, ExistingHotFacts(memories))
        kept == SelectSeq(candidates, Keep)
    IN  [i \in 1 .. Len(kept) |-> validate_candidate(kept[i], ExistingHotFacts(memories))]

\* _count_recent_additions
CountRecentAdditions(memories, t) ==
    Cardinality({i \in 1 .. Len(memories) :
                    memories[i].created_at > t - RATE_WINDOW_MINUTES})

\* a budget that forgets what was added in the last hour
RateBudget_IgnoresRecent(memories, t) == MAX_ADDITIONS_PER_HOUR

\* line 645
RateBudget(memories, t) ==
    Max(0, MAX_ADDITIONS_PER_HOUR - CountRecentAdditions(memories, t))

\* validated[:budget]
FirstN(s, n) == IF Len(s) <= n THEN s ELSE SubSeq(s, 1, n)

\* search_hot_memories_text: whether it returns any fact for the query
HotHit(m, query) ==
    /\ m.fact # <<>>
    /\ IsValid(m)
    /\ \/ Contains(Lower(m.fact), Lower(query))
       \/ Contains(Lower(query), Lower(m.fact))
       \/ LET overlap == Cardinality(WordSet(query) \cap WordSet(m.fact))
          IN  overlap # 0 /\ 10 * overlap >= 3 * Max(Cardinality(WordSet(query)), 1)

search_hot_memories_text(memories, query) ==
    /\ Strip(query) # <<>>
    /\ \E i \in 1 .. Len(memories) : HotHit(memories[i], query)

\* how the capsule search of search_existing_memories ends: chunks found,
\* the query ran and found nothing, or it failed (binary missing, timeout,
\* any other exception)
CapsuleOutcomes == {"hits", "none", "failed"}

\* hot_memory_store.py search_capsule, lines 551-567: every failure is
\* logged and leaves `results` as it is; the value tells whether the list
\* returned holds anything
search_capsule(outcome) == outcome = "hits"

\* a key the JSON object does not have
Absent == <<"absent">>

\* what the reasoning service answers to a reconciliation request: nothing
\* (call_claude gave up), text that is not JSON, JSON that is not an object,
\* or a JSON object
Reply(o, u, d) == [raw |-> "json", operation |-> o, updated_fact |-> u,
                   delete_target |-> d]
Responses ==
    { [raw |-> "empty"], [raw |-> "garbage"], [raw |-> "nonobject"],
      Reply("ADD", Absent, <<>>), Reply("UPDATE", Absent, <<>>),
      Reply("UPDATE", F_tea_dawn, <<>>), Reply("DELETE", Absent, <<>>),
      Reply("DELETE", Absent, T_ea), Reply("NOOP", Absent, <<>>) }

Result(o, r, u, d) == [operation |-> o, reason |-> r, updated_fact |-> u,
                       delete_target |-> d]

\* reconcile_fact, lines 382-401; a parsed value that is not an object is
\* returned as it is and result.get (line 673) raises AttributeError
reconcile_fact(existing, resp) ==
    IF ~existing THEN Result("ADD", "no existing memories found", Absent, <<>>)
    ELSE IF resp.raw = "empty" THEN Result("ADD", "API fallback", Absent, <<>>)
    ELSE IF resp.raw = "garbage" THEN Result("ADD", "parse fallback", Absent, <<>>)
    ELSE IF resp.raw = "nonobject" THEN Result("AttributeError", "", Absent, <<>>)
    ELSE Result(resp.operation, "", resp.updated_fact, resp.delete_target)

\* a loop that takes the fallback results for confirmed ones
is_api_fallback_Never(reason) == FALSE

\* line 675
is_api_fallback(reason) == reason \in {"API fallback", "parse fallback"}

\* build_memory_metadata with the fact it is stored under
build_memory(c, fact, t) ==
    MkRec(c.cid, fact, FALSE, t, c.importance, c.category, c.entities)

\* an advance that does not look at the error count
MayAdvance_Always(r) == ~r.dry_run

\* lines 721-722: the condition under which the marker is advanced
MayAdvance(r) == ~r.dry_run /\ r.errors = 0

-----------------------------------------------------------------------------
(* The extraction pipeline as processes: main and run_extraction, one       *)
(* action per phase.  The store commands a run calls are taken as single    *)
(* steps (they run under the store lock, see the store section); each can   *)
(* complete, have its write fail (OSError, logged by write_hot_memories),   *)
(* or raise TimeoutError out of hot_memory_lock.                            *)

procVars == <<lockHolders, op, snap, mem, target, evict, tmp>>

StoreOutcomes == {"ok", "oserror", "timeout"}
PipeInstants == {60, 3000}

ActivePcs == {"x_house", "x_guard", "x_marker", "x_query", "x_extract", "x_filter",
              "x_validate", "x_rate", "x_reconcile", "x_done"}

\* an instance lock that is granted whoever holds it
InstanceLockFree_Always == TRUE

\* flock(_pid_fd, LOCK_EX | LOCK_NB) succeeds

InstanceLockFree == instHolders = {}

\* a store command called by the run: the file and the archive after it
StoreCommand(arch, body, out) ==
    /\ store' = IF out = "ok" /\ body.write THEN Capped(body.list) ELSE store
    /\ archive' =
          IF out = "ok" /\ body.write
          THEN ArchiveAppend(
                   ArchiveAppend(arch, PinnedEvicted(body.list),
                                 Len(PinnedEvicted(body.list)), now),
                   UnpinnedEvicted(body.list), Len(UnpinnedEvicted(body.list)), now)
          ELSE arch

\* run_extraction returns, or raises into the handler of main (code 1)
Done(p, r, code) ==
    /\ pc' = [pc EXCEPT ![p] = "x_done"]
    /\ run' = [run EXCEPT ![p] = [r EXCEPT !.exit = code]]

Goto(p, r, label) ==
    /\ pc' = [pc EXCEPT ![p] = label]
    /\ run' = [run EXCEPT ![p] = r]

\* write_marker: atomic_write_json, an OSError is logged and swallowed
write_marker(w) == marker' = IF w THEN now ELSE marker

\* cron or a user starts the extractor: at most MaxRuns runs one after the
\* other, and any invocation while a run is going on
CanInvoke(p) ==
    /\ pc[p] = "idle"
    /\ \A q \in Procs : q < p => pc[q] # "idle"
    /\ started < MaxRuns \/ instHolders # {}

\* main, lines 879-883: the instance lock is taken
Invoke(p) ==
    /\ CanInvoke(p)
    /\ UNCHANGED toolVars
    /\ InstanceLockFree
    /\ instHolders' = instHolders \cup {p}
    /\ \E f, d \in BOOLEAN :
          Goto(p, [NoRun EXCEPT !.force = f, !.dry_run = d,
                                !.store_at_start = store,
                                !.marker_at_start = marker], "x_house")
    /\ started' = started + 1
    /\ UNCHANGED <<store, archive, now, nextId, marker>>
    /\ UNCHANGED procVars

\* acquire_instance_lock, lines 81-83: the lock is held, sys.exit(0)
InvokeRefused(p) ==
    /\ CanInvoke(p)
    /\ UNCHANGED toolVars
    /\ ~InstanceLockFree
    /\ \A q \in Procs : pc[q] # "refused"
    /\ \E f \in BOOLEAN :
          /\ pc' = [pc EXCEPT ![p] = "refused"]
          /\ run' = [run EXCEPT ![p] = [NoRun EXCEPT !.force = f, !.exit = 0]]
    /\ UNCHANGED <<store, archive, now, nextId, marker, instHolders, started>>
    /\ UNCHANGED procVars

\* lines 560-562: cleanup_temp_files (touches only dot-prefixed .tmp files),
\* rotate_archive, prune_invalidated(max_age_hours=48.0)
Housekeeping(p) ==
    /\ pc[p] = "x_house"
    /\ UNCHANGED toolVars
    /\ \E out \in StoreOutcomes :
          /\ StoreCommand(LastN(archive, MAX_ARCHIVE_LINES),
                          PruneInvalidatedBody(read_hot_memories(store),
                                               HOUSEKEEPING_PRUNE_MINUTES, now),
                          out)
          /\ IF out = "timeout" THEN Done(p, run[p], 1)
                                ELSE Goto(p, run[p], "x_guard")
    /\ UNCHANGED <<now, nextId, marker, instHolders, started>>
    /\ UNCHANGED procVars

\* lines 565-567: check_disk_space
DiskGuard(p) ==
    /\ pc[p] = "x_guard"
    /\ UNCHANGED toolVars
    /\ \E enough \in BOOLEAN :
          IF enough THEN Goto(p, run[p], "x_marker") ELSE Done(p, run[p], 0)
    /\ UNCHANGED <<store, archive, now, nextId, marker, instHolders, started>>
    /\ UNCHANGED procVars

\* an interval guard of one minute
IntervalGuardStops_OneMinute(r) ==
    ~r.force /\ marker # NONE /\ now - marker < 1

\* an interval guard that does not look at the force flag
IntervalGuardStops_IgnoresForce(r) ==
    marker # NONE /\ now - marker < MIN_INTERVAL_MINUTES

\* lines 570-579: the marker is read only without force; the run is skipped
\* when it is less than 3 minutes old
IntervalGuardStops(r) ==
    ~r.force /\ marker # NONE /\ now - marker < MIN_INTERVAL_MINUTES

\* lines 570-581: the minimum-interval guard
MarkerCheck(p) ==
    /\ pc[p] = "x_marker"
    /\ UNCHANGED toolVars
    /\ IF IntervalGuardStops(run[p])
       THEN Done(p, run[p], 0)
       ELSE Goto(p, run[p], "x_query")
    /\ UNCHANGED <<store, archive, now, nextId, marker, instHolders, started>>
    /\ UNCHANGED procVars

\* lines 585-594 with query_recent_logs: None on an error, "" when there are
\* no logs or the capsule stayed locked through the retries, else the text
QueryLogs(p) ==
    /\ pc[p] = "x_query"
    /\ UNCHANGED toolVars
    /\ \E res \in {"error", "locked", "empty", "text"}, w \in BOOLEAN :
          LET r == [run[p] EXCEPT !.logs = res, !.queries = @ + 1]
          IN  CASE res = "error" -> marker' = marker /\ Done(p, r, 0)
                [] res \in {"locked", "empty"} -> write_marker(w) /\ Done(p, r, 0)
                [] res = "text" -> marker' = marker /\ Goto(p, r, "x_extract")
    /\ UNCHANGED <<store, archive, now, nextId, instHolders, started>>
    /\ UNCHANGED procVars

\* lines 597-608 with extract_facts: None when the response is empty, does
\* not parse or has no list of facts, AttributeError out of data.get (line
\* 246) when it is JSON but not an object, else the list of facts
ExtractFacts(p) ==
    /\ pc[p] = "x_extract"
    /\ UNCHANGED toolVars
    /\ \E res \in {"failed", "raised", "empty", "facts"}, w \in BOOLEAN :
          LET r == [run[p] EXCEPT !.phase1 = res, !.calls = @ + 1]
          IN  CASE res = "failed" -> marker' = marker /\ Done(p, r, 0)
                [] res = "raised" -> marker' = marker /\ Done(p, r, 1)
                [] res = "empty" -> write_marker(w) /\ Done(p, r, 0)
                [] res = "facts" ->
                     \E l \in CandidateLists(FirstCid(started)) :
                        /\ marker' = marker
                        /\ Goto(p, [r EXCEPT !.candidates = l], "x_filter")
    /\ UNCHANGED <<store, archive, now, nextId, instHolders, started>>
    /\ UNCHANGED procVars

\* lines 611-620
FilterImportance(p) ==
    /\ pc[p] = "x_filter"
    /\ UNCHANGED toolVars
    /\ LET hot_candidates == HotCandidates(run[p].candidates)
       IN  IF hot_candidates = <<>>
           THEN \E w \in BOOLEAN : write_marker(w) /\ Done(p, run[p], 0)
           ELSE /\ marker' = marker
                /\ Goto(p, [run[p] EXCEPT !.candidates = hot_candidates], "x_validate")
    /\ UNCHANGED <<store, archive, now, nextId, instHolders, started>>
    /\ UNCHANGED procVars

\* lines 624-641
Validate(p) ==
    /\ pc[p] = "x_validate"
    /\ UNCHANGED toolVars
    /\ LET validated == Validated(run[p].candidates, read_hot_memories(store))
       IN  IF validated = <<>>
           THEN \E w \in BOOLEAN : write_marker(w) /\ Done(p, run[p], 0)
           ELSE /\ marker' = marker
                /\ Goto(p, [run[p] EXCEPT !.candidates = validated], "x_rate")
    /\ UNCHANGED <<store, archive, now, nextId, instHolders, started>>
    /\ UNCHANGED procVars

\* lines 644-653
RateLimit(p) ==
    /\ pc[p] = "x_rate"
    /\ UNCHANGED toolVars
    /\ LET budget == RateBudget(read_hot_memories(store), now)
       IN  IF budget = 0
           THEN \E w \in BOOLEAN : write_marker(w) /\ Done(p, run[p], 0)
           ELSE /\ marker' = marker
                /\ Goto(p, [run[p] EXCEPT !.candidates = FirstN(@, budget)],
                        "x_reconcile")
    /\ UNCHANGED <<store, archive, now, nextId, instHolders, started>>
    /\ UNCHANGED procVars

\* lines 663-718: one turn of the loop over the validated candidates; the
\* reasoning service is asked only when a search found something
Reconcile(p) ==
    /\ pc[p] = "x_reconcile"
    /\ UNCHANGED toolVars
    /\ Len(run[p].results) < Len(run[p].candidates)
    /\ \E capsule \in CapsuleOutcomes :
          LET r == run[p]
              c == r.candidates[Len(r.results) + 1]
              fact_text == Strip(c.fact)
              memories == read_hot_memories(store)
              existing == \/ search_capsule(capsule)
                          \/ search_hot_memories_text(memories, fact_text)
          IN  \E resp \in (IF existing THEN Responses ELSE {[raw |-> "empty"]}) :
                LET result == reconcile_fact(existing, resp)
                    operation == result.operation
                    blind == operation = "ADD" /\ is_api_fallback(result.reason)
                    updated_text == IF result.updated_fact = Absent THEN fact_text
                                    ELSE result.updated_fact
                    body ==
                        CASE operation = "ADD" ->
                               AppendBody(memories, build_memory(c, fact_text, now))
                          [] operation = "UPDATE" ->
                               UpdateBody(memories, fact_text,
                                          build_memory(c, updated_text, now), now)
                          [] operation = "DELETE" ->
                               InvalidateBody(memories, result.delete_target, now)
                          [] OTHER -> [write |-> FALSE, list |-> memories]
                    calls_store ==
                        /\ ~r.dry_run
                        /\ \/ operation = "ADD" /\ ~blind
                           \/ operation = "UPDATE"
                           \/ operation = "DELETE" /\ result.delete_target # <<>>
                    r1 == [r EXCEPT !.results = Append(@, [operation |-> operation,
                                                           reason |-> result.reason,
                                                           searched |-> capsule # "failed"]),
                                    !.calls = @ + (IF existing THEN 1 ELSE 0),
                                    !.errors = @ + (IF blind THEN 1 ELSE 0)]
                IN  \E out \in (IF calls_store THEN StoreOutcomes ELSE {"ok"}) :
                      /\ IF calls_store
                         THEN StoreCommand(archive, body, out)
                         ELSE store' = store /\ archive' = archive
                      /\ IF out = "timeout" \/ operation = "AttributeError"
                         THEN Done(p, r1, 1)
                         ELSE Goto(p, r1, "x_reconcile")
    /\ UNCHANGED <<now, nextId, marker, instHolders, started>>
    /\ UNCHANGED procVars

\* lines 721-728: the marker is advanced after the loop
AdvanceMarker(p) ==
    /\ pc[p] = "x_reconcile"
    /\ UNCHANGED toolVars
    /\ Len(run[p].results) = Len(run[p].candidates)
    /\ IF MayAdvance(run[p])
       THEN \E w \in BOOLEAN : write_marker(w)
       ELSE marker' = marker
    /\ Done(p, run[p], 0)
    /\ UNCHANGED <<store, archive, now, nextId, instHolders, started>>
    /\ UNCHANGED procVars

\* the process ends: the kernel drops its flock on extractor.pid
Exit(p) ==
    /\ pc[p] \in {"x_done", "refused"}
    /\ UNCHANGED toolVars
    /\ pc' = [pc EXCEPT ![p] = "idle"]
    /\ run' = [run EXCEPT ![p] = NoRun]
    /\ instHolders' = instHolders \ {p}
    /\ UNCHANGED <<store, archive, now, nextId, marker, started>>
    /\ UNCHANGED procVars

\* the process is killed during the run
Kill(p) ==
    /\ pc[p] \in ActivePcs \ {"x_done"}
    /\ UNCHANGED toolVars
    /\ pc' = [pc EXCEPT ![p] = "idle"]
    /\ run' = [run EXCEPT ![p] = NoRun]
    /\ instHolders' = instHolders \ {p}
    /\ UNCHANGED <<store, archive, now, nextId, marker, started>>
    /\ UNCHANGED procVars

\* the clock moves on between runs
PipeTick ==
    /\ instHolders = {}
    /\ UNCHANGED toolVars
    /\ started < MaxRuns
    /\ \E t \in PipeInstants : t > now /\ now' = t
    /\ UNCHANGED <<store, archive, nextId, pc, marker, instHolders, run, started>>
    /\ UNCHANGED procVars

\* four records appended within the last hour; PipeInitStores has them with
\* a fifth one as well
RecentStore ==
    [i \in 1 .. 4 |-> MkRec(i, <<"r", "e", "c", <<"a", "b", "c", "d">>[i]>>, FALSE, 30, 6, "work", 1)]

PipeInitStores ==
    { <<>>,
      <<MkRec(1, T_tea, TRUE, 0, 8, "reflection", NONE),
        [MkRec(2, T_bee, FALSE, 0, 6, "preference", 1) EXCEPT !.t_invalid = 0]>>,
      RecentStore,
      Append(RecentStore, MkRec(5, <<"r", "e", "c", "e">>, FALSE, 45, 6, "work", 1)) }

PipeInit ==
    /\ store \in PipeInitStores
    /\ archive = <<>>
    /\ lockHolders = {}
    /\ now = 60
    /\ nextId = 10
    /\ pc = [p \in Procs |-> "idle"]
    /\ op = [p \in Procs |-> NoOp]
    /\ snap = [p \in Procs |-> <<>>]
    /\ mem = [p \in Procs |-> <<>>]
    /\ target = [p \in Procs |-> <<>>]
    /\ evict = [p \in Procs |-> <<>>]
    /\ tmp = [p \in Procs |-> NoFile]
    /\ started = 0
    /\ marker \in {NONE, now - 2}
    /\ instHolders = {}
    /\ run = [p \in Procs |-> NoRun]
    /\ HealthIdle
    /\ lint = NoLint
    /\ CallIdle

PipeNext ==
    \/ \E p \in Procs : Invoke(p)
    \/ \E p \in Procs : InvokeRefused(p)
    \/ \E p \in Procs : Housekeeping(p)
    \/ \E p \in Procs : DiskGuard(p)
    \/ \E p \in Procs : MarkerCheck(p)
    \/ \E p \in Procs : QueryLogs(p)
    \/ \E p \in Procs : ExtractFacts(p)
    \/ \E p \in Procs : FilterImportance(p)
    \/ \E p \in Procs : Validate(p)
    \/ \E p \in Procs : RateLimit(p)
    \/ \E p \in Procs : Reconcile(p)
    \/ \E p \in Procs : AdvanceMarker(p)
    \/ \E p \in Procs : Exit(p)
    \/ \E p \in Procs : Kill(p)
    \/ PipeTick

SpecPipeline == PipeInit /\ [][PipeNext]_vars

-----------------------------------------------------------------------------
(* Failure tracking as called at the exits of run_extraction (lines 566,   *)
(* 588-727, 892).  The runs above leave the failure file alone; its calls   *)
(* are the actions here.                                                    *)

\* _write_failure_data: the file is replaced, or an OSError is logged and
\* the file stays as it was
WriteFailureData(data) == failure_data' \in {data, failure_data}

\* record_failure(component, error)
RecordFailure(c) ==
    /\ health_calls < MaxHealthCalls
    /\ LET t == now + health_calls
           data == record_failure(failure_data, c, t)
       IN  /\ WriteFailureData(data)
           /\ sent' = IF CountOf(data, c) = CONSECUTIVE_FAILURE_ALERT_THRESHOLD
                      THEN Append(sent, [kind |-> "ALERT", component |-> c,
                                         count |-> CountOf(data, c)])
                      ELSE sent
    /\ recorded' = [recorded EXCEPT ![c] = recorded[c] + 1]
    /\ health_calls' = health_calls + 1
    /\ UNCHANGED storeVars
    /\ UNCHANGED <<marker, instHolders, run, lint, callVars>>

\* record_success(component)
RecordSuccess(c) ==
    /\ health_calls < MaxHealthCalls
    /\ IF c \in Tracked(failure_data)
       THEN /\ sent' = IF CountOf(failure_data, c) >= CONSECUTIVE_FAILURE_ALERT_THRESHOLD
                       THEN Append(sent, [kind |-> "RECOVERED", component |-> c,
                                          count |-> CountOf(failure_data, c)])
                       ELSE sent
            /\ WriteFailureData(record_success(failure_data, c, now + health_calls))
       ELSE /\ sent' = sent
            /\ failure_data' = failure_data
    /\ recorded' = [recorded EXCEPT ![c] = 0]
    /\ health_calls' = health_calls + 1
    /\ UNCHANGED storeVars
    /\ UNCHANGED <<marker, instHolders, run, lint, callVars>>

\* a history of n ended streaks of one failure each
PastHistory(n) ==
    [i \in 1 .. n |-> [component |-> "memory-extractor", count |-> 1,
                       first_at |-> i, last_at |-> i, recovered_at |-> i]]

\* failure files the calls produce: none, a full history, a history one
\* short of the cap with a streak of two going on
HealthInitData ==
    { <<NoData, 0>>,
      <<[failures |-> <<>>, history |-> PastHistory(HISTORY_CAP)], 0>>,
      <<[failures |-> <<[component |-> "memory-extractor", count |-> 2,
                         first_at |-> 40, last_at |-> 50]>>,
         history |-> PastHistory(HISTORY_CAP - 1)], 2>> }

HealthInit ==
    /\ store = <<>>
    /\ archive = <<>>
    /\ lockHolders = {}
    /\ now = 60
    /\ nextId = 10
    /\ pc = [p \in Procs |-> "idle"]
    /\ op = [p \in Procs |-> NoOp]
    /\ snap = [p \in Procs |-> <<>>]
    /\ mem = [p \in Procs |-> <<>>]
    /\ target = [p \in Procs |-> <<>>]
    /\ evict = [p \in Procs |-> <<>>]
    /\ tmp = [p \in Procs |-> NoFile]
    /\ started = 0
    /\ marker = NONE
    /\ instHolders = {}
    /\ run = [p \in Procs |-> NoRun]
    /\ \E d \in HealthInitData :
          /\ failure_data = d[1]
          /\ recorded = [c \in Components |->
                            IF c = "memory-extractor" THEN d[2] ELSE 0]
    /\ sent = <<>>
    /\ health_calls = 0
    /\ lint = NoLint
    /\ CallIdle

HealthNext ==
    \/ \E c \in Components : RecordFailure(c)
    \/ \E c \in Components : RecordSuccess(c)

SpecHealth == HealthInit /\ [][HealthNext]_vars

-----------------------------------------------------------------------------
(* memory-linter.py: the checks, the report and the exit code of main      *)

\* the characters of [a-z0-9]
AlnumChars ==
    {"a", "b", "c", "d", "e", "f", "g", "h", "i", "j", "k", "l", "m", "n", "o",
     "p", "q", "r", "s", "t", "u", "v", "w", "x", "y", "z",
     "0", "1", "2", "3", "4", "5", "6", "7", "8", "9"}

RECURSIVE TokensFrom(_, _, _)
TokensFrom(t, cur, acc) ==
    IF t = <<>> THEN (IF cur = <<>> THEN acc ELSE acc \cup {cur})
    ELSE IF Head(t) \in AlnumChars
         THEN TokensFrom(Tail(t), Append(cur, Head(t)), acc)
         ELSE TokensFrom(Tail(t), <<>>, IF cur = <<>> THEN acc ELSE acc \cup {cur})

\* _tokenize: set(re.findall(r"[a-z0-9]+", text.lower()))
Tokenize(text) == TokensFrom(Lower(text), <<>>, {})

\* _word_overlap_ratio(a, b) >= 0.5
OverlapAtLeastHalf(a, b) ==
    /\ a # {}
    /\ b # {}
    /\ 2 * Cardinality(a \cap b) >= Min(Cardinality(a), Cardinality(b))

\* check_duplicates: the index pairs reported
check_duplicates(memories) ==
    {<<i, j>> \in (1 .. Len(memories)) \X (1 .. Len(memories)) :
        /\ i < j
        /\ OverlapAtLeastHalf(Tokenize(memories[i].fact), Tokenize(memories[j].fact))}

\* check_category_validity: the indices reported
check_category_validity(memories) ==
    {i \in 1 .. Len(memories) : memories[i].category \notin VALID_CATEGORIES}

\* check_fact_quality (question, no capitalized word) and
\* check_temporal_validity over the fields of the model
OtherIssues(memories) ==
    \E i \in 1 .. Len(memories) :
        \/ (RStrip(memories[i].fact) # <<>>
              /\ RStrip(memories[i].fact)[Len(RStrip(memories[i].fact))] = "?")
        \/ (Len(memories[i].fact) >= MIN_FACT_LENGTH
              /\ \A w \in Range(Split(memories[i].fact)) : ~IsUpperChar(w[1]))
        \/ memories[i].t_invalid = UNPARSABLE

\* run_lint: summary.total_issues > 0
HasIssues(memories, t) ==
    \/ check_duplicates(memories) # {}
    \/ LintIssues(memories, t)
    \/ OtherIssues(memories)

\* main, lines 546-556
linter_exit(strict, fix, total, post_total) ==
    IF strict /\ total
    THEN (IF fix THEN (IF post_total THEN 1 ELSE 0) ELSE 1)
    ELSE 0

\* one run of memory-linter.py with nobody else at the store.  A store file
\* that exists and cannot be opened makes read_hot_memories raise OSError at
\* line 499, which nothing catches: the interpreter ends with status 1.
LinterMain ==
    /\ lint.runs < MaxLintRuns
    /\ \E strict \in BOOLEAN, fix \in BOOLEAN, unreadable \in BOOLEAN :
         IF unreadable /\ store # <<>>
         THEN /\ lint' = [runs |-> lint.runs + 1, strict |-> strict, fix |-> fix,
                          unreadable |-> TRUE, linted |-> <<>>, dup |-> {},
                          cat |-> {}, issues |-> FALSE, exit |-> 1]
              /\ store' = store
         ELSE LET memories == read_hot_memories(store)
                  total == HasIssues(memories, now)
                  fixed == auto_fix_memories(memories)
              IN  /\ lint' = [runs |-> lint.runs + 1, strict |-> strict, fix |-> fix,
                              unreadable |-> FALSE, linted |-> memories,
                              dup |-> check_duplicates(memories),
                              cat |-> check_category_validity(memories),
                              issues |-> total,
                              exit |-> IF memories = <<>> THEN 0
                                       ELSE linter_exit(strict, fix, total,
                                                        HasIssues(fixed, now))]
                  /\ IF memories # <<>> /\ fix /\ total /\ LinterFixBody(memories).write
                     THEN store' \in {Capped(fixed), store}
                     ELSE store' = store
    /\ UNCHANGED <<archive, lockHolders, now, nextId, pc, op, snap, mem, target,
                   evict, tmp, started>>
    /\ UNCHANGED <<marker, instHolders, run, healthVars, callVars>>

\* the clock moves on between two runs of the linter
LintTick ==
    /\ lint.runs < MaxLintRuns
    /\ \E t \in Instants : t > now /\ now' = t
    /\ UNCHANGED <<store, archive, lockHolders, nextId, pc, op, snap, mem, target,
                   evict, tmp, started>>
    /\ UNCHANGED pipeVars

\* stores the writers produce: none; one clean record; two similar active
\* records; an updated fact (the old record invalidated, the new one
\* active); a record stored by weekly-reflection.py
LintInitStores ==
    { <<>>,
      <<MkRec(1, F_tea_dusk, FALSE, 0, 6, "preference", 1)>>,
      <<MkRec(1, F_tea_dusk, FALSE, 0, 6, "preference", 1),
        MkRec(2, F_tea_dawn, FALSE, 30, 6, "preference", 1)>>,
      <<[MkRec(1, F_tea_dusk, FALSE, 0, 6, "preference", 1) EXCEPT !.t_invalid = 30],
        MkRec(2, F_tea_dawn, FALSE, 30, 6, "preference", 1)>>,
      <<MkRec(1, F_bulbs, TRUE, 0, REFLECTION_IMPORTANCE, "reflection", NONE)>> }

LintInit ==
    /\ store \in LintInitStores
    /\ archive = <<>>
    /\ lockHolders = {}
    /\ now = 60
    /\ nextId = 10
    /\ pc = [p \in Procs |-> "idle"]
    /\ op = [p \in Procs |-> NoOp]
    /\ snap = [p \in Procs |-> <<>>]
    /\ mem = [p \in Procs |-> <<>>]
    /\ target = [p \in Procs |-> <<>>]
    /\ evict = [p \in Procs |-> <<>>]
    /\ tmp = [p \in Procs |-> NoFile]
    /\ started = 0
    /\ PipeIdle

LintNext ==
    \/ LinterMain
    \/ LintTick

SpecLint == LintInit /\ [][LintNext]_vars

-----------------------------------------------------------------------------
(* Reinforcement: records added as the extractor adds them (ADD branch,     *)
(* lines 682-692) and `memory-scorer.py reinforce` commands                 *)

\* append_hot_memory(fact_text, build_memory_metadata(candidate)) for a
\* candidate of importance 6
StartAdd(p) ==
    /\ Begin(p, Cmd("append", <<>>,
             build_memory(Cand(nextId, F_tea_dusk, 6, "preference", 1),
                          Strip(F_tea_dusk), now),
             FALSE, FALSE))
    /\ nextId' = nextId + 1
    /\ UNCHANGED <<store, archive, now, snap, mem, target, evict, tmp>>
    /\ UNCHANGED pipeVars

ReinforceNext ==
    \/ \E p \in Procs : StartAdd(p)
    \/ \E p \in Procs : StartReinforce(p)
    \/ \E p \in Procs : LockTimeout(p)
    \/ \E p \in Procs : Body(p)
    \/ \E p \in Procs : WriteCap(p)
    \/ \E p \in Procs : WriteTmpCreate(p)
    \/ \E p \in Procs : WriteTmpCreateFail(p)
    \/ \E p \in Procs : WriteTmpLines(p)
    \/ \E p \in Procs : WriteTmpLinesFail(p)
    \/ \E p \in Procs : WriteRename(p)
    \/ \E p \in Procs : WriteRenameFail(p)
    \/ \E p \in Procs : WriteCleanup(p)
    \/ \E p \in Procs : Unlock(p)
    \/ \E p \in Procs : Crash(p)
    \/ Tick

SpecReinforce == EditInit /\ [][ReinforceNext]_storeVars

-----------------------------------------------------------------------------
(* Properties of the store                                                 *)

\* C1: after any sequence of write_hot_memories calls, whatever lists they
\* are given, the store file holds at most MAX_HOT_MEMORIES records.
C1_TotalCap == Len(store) <= MAX_HOT_MEMORIES

\* a call given more than MAX_HOT_MEMORIES records has replaced the store
C1_Witness ==
    \E p \in Procs :
        /\ pc[p] = "unlock"
        /\ Len(mem[p]) > MAX_HOT_MEMORIES
        /\ store = target[p]
        /\ Len(store) = MAX_HOT_MEMORIES

\* C2: after any sequence of write_hot_memories calls, whatever the length
\* of the lists, the store file holds at most MAX_PINNED_MEMORIES pinned
\* records.
C2_PinnedCap == Len(PinnedOf(store)) <= MAX_PINNED_MEMORIES

\* C3: the store file changes only in the rename step, and then to the
\* complete list of the writer; a write that fails or is interrupted before
\* the rename leaves the file as it was.
C3_AtomicReplace ==
    [][store' = store
         \/ \E p \in Procs : /\ pc[p] = "w_rename"
                             /\ pc'[p] = "unlock"
                             /\ tmp[p] = target[p]
                             /\ store' = target[p]]_storeVars

\* a write failed half way through the temporary file; the store is as read
C3_Witness ==
    \E p \in Procs :
        /\ pc[p] = "w_cleanup"
        /\ tmp[p] # NoFile
        /\ tmp[p] # target[p]
        /\ store = snap[p]
        /\ store # target[p]

\* C4: at most one process holds the store lock, and the store file is only
\* replaced by the lock holder, with the file still being what the holder
\* read after taking the lock.
C4_LockedReadModifyWrite ==
    [][/\ Cardinality(lockHolders') <= 1
       /\ store' # store =>
            \E p \in Procs : /\ lockHolders = {p}
                             /\ p \in lockHolders'
                             /\ pc[p] = "w_rename"
                             /\ op[p].kind \in {"append", "invalidate", "update",
                                    "prune", "reinforce", "scorer_prune", "dedup",
                                    "linter_fix"}
                             /\ snap[p] = store]_storeVars

\* a command is about to replace the store while another waits for the lock
C4_Witness ==
    \E p, q \in Procs :
        /\ p # q
        /\ lockHolders = {p}
        /\ pc[p] = "w_rename"
        /\ target[p] # store
        /\ pc[q] = "acquire"

\* C7: a record leaves the store only by capacity eviction after it was
\* archived, by prune of a record invalidated longer ago than the retention
\* window, or by deduplication.
C7_OnlyThreeWaysOut ==
    [][\A i \in 1 .. Len(store) :
          store[i].id \notin Ids(store') =>
             \E p \in Procs :
                /\ pc[p] = "w_rename"
                /\ \/ /\ store[i].id \in Ids(evict[p])
                      /\ store[i].id \in ArchivedIds(archive)
                   \/ /\ op[p].kind = "prune"
                      /\ PruneDrops(store[i], now - PRUNE_DEFAULT_MINUTES)
                   \/ op[p].kind = "dedup"]_storeVars

\* C8: when the store file without an evicted record becomes visible, the
\* record is in the archive.
C8_ArchivedBeforeVisible ==
    [][\A p \in Procs :
          (pc[p] = "w_rename" /\ store' # store) =>
             \A i \in 1 .. Len(evict[p]) :
                evict[p][i].id \in ArchivedIds(archive) \cup Ids(store')]_storeVars

-----------------------------------------------------------------------------
(* Properties of the extraction pipeline                                   *)

\* C5: a run whose extraction call failed (empty or malformed response), or
\* in which the reconciliation of at least one candidate failed, leaves the
\* marker at the value it had when the run started.
C5_MarkerOnlyAfterCleanRun ==
    \A p \in Procs :
        (\/ run[p].phase1 \in {"failed", "raised"}
         \/ \E i \in 1 .. Len(run[p].results) :
               run[p].results[i].reason \in {"API fallback", "parse fallback"})
        => marker = run[p].marker_at_start

\* a run that was allowed to write went through its loop, stored one
\* candidate and failed to reconcile another
C5_Witness ==
    \E p \in Procs :
        /\ pc[p] = "x_done"
        /\ ~run[p].dry_run
        /\ Len(run[p].results) = 2
        /\ \E i \in 1 .. 2 : run[p].results[i].reason = "API fallback"
        /\ \E i \in 1 .. 2 : run[p].candidates[i].cid \in Ids(store)
        /\ marker = run[p].marker_at_start

\* C6: a candidate whose reconciliation call failed or returned a response
\* that does not parse is not in the store, the error count of its run is
\* not zero, and the marker is where it was when the run started.
C6_FailClosed ==
    \A p \in Procs :
        \A i \in 1 .. Len(run[p].results) :
            run[p].results[i].reason \in {"API fallback", "parse fallback"} =>
                /\ run[p].candidates[i].cid \notin Ids(store)
                /\ run[p].errors > 0
                /\ marker = run[p].marker_at_start

\* the response for the first of two candidates did not parse, in a run
\* that may write; the second candidate is still to be reconciled
C6_Witness ==
    \E p \in Procs :
        /\ pc[p] = "x_reconcile"
        /\ ~run[p].dry_run
        /\ Len(run[p].candidates) = 2
        /\ Len(run[p].results) = 1
        /\ run[p].results[1].operation = "ADD"
        /\ run[p].results[1].reason = "parse fallback"
        /\ run[p].errors = 1

\* C9: when a run with the dry-run flag has ended, by whichever path, the
\* store and the marker are what they were when it started.
C9_DryRunWritesNothing ==
    \A p \in Procs :
        (pc[p] = "x_done" /\ run[p].dry_run) =>
            /\ store = run[p].store_at_start
            /\ marker = run[p].marker_at_start

\* C10: at most one process holds the instance lock and at most one run is
\* active; an invocation made while the lock is held ends at once, without
\* the lock, having made no activity query and no reasoning call, and
\* leaves the store, the archive and the marker as they are.
C10_SingleActiveRun ==
    [][/\ Cardinality(instHolders') <= 1
       /\ Cardinality({p \in Procs : pc'[p] \in ActivePcs}) <= 1
       /\ \A p \in Procs :
             (pc[p] = "idle" /\ pc'[p] # "idle" /\ instHolders # {}) =>
                 /\ pc'[p] = "refused"
                 /\ p \notin instHolders'
                 /\ run'[p].exit = 0
                 /\ run'[p].queries = 0 /\ run'[p].calls = 0
                 /\ store' = store /\ archive' = archive /\ marker' = marker
       /\ \A p \in Procs :
             (pc[p] = "refused" /\ pc'[p] # "refused") =>
                 /\ pc'[p] = "idle"
                 /\ store' = store /\ archive' = archive /\ marker' = marker]_vars

\* an invocation was turned away while a run is reconciling its candidates
C10_Witness ==
    \E p, q \in Procs :
        /\ p # q
        /\ instHolders = {p}
        /\ pc[p] = "x_reconcile"
        /\ run[p].queries = 1
        /\ pc[q] = "refused"
        /\ run[q].queries = 0

\* C11 (as stated): with the force flag neither guard stops the run: a forced
\* invocation goes on into the run even while another run holds the instance
\* lock, and a forced run passes the minimum-interval guard.
C11_ForceDefeatsBothGuards ==
    [][\A p \in Procs :
          /\ (pc[p] = "idle" /\ pc'[p] # "idle" /\ run'[p].force) =>
                 pc'[p] = "x_house"
          /\ (pc[p] = "x_marker" /\ run[p].force /\ pc'[p] \notin {"x_marker", "idle"}) =>
                 pc'[p] = "x_query"]_vars

\* C11 (amended): the force flag defeats the minimum-interval guard only: a
\* forced run passes the guard whatever the age of the marker, while a forced
\* invocation made when another run holds the instance lock is turned away
\* like any other, and goes on into the run exactly when the lock is free.
C11_ForceDefeatsIntervalOnly ==
    [][\A p \in Procs :
          /\ (pc[p] = "idle" /\ pc'[p] # "idle" /\ run'[p].force) =>
                 /\ instHolders # {} => pc'[p] = "refused" /\ p \notin instHolders'
                 /\ instHolders = {} => pc'[p] = "x_house" /\ p \in instHolders'
          /\ (pc[p] = "x_marker" /\ run[p].force /\ pc'[p] \notin {"x_marker", "idle"}) =>
                 pc'[p] = "x_query"]_vars

\* a forced run got past the guard with a marker two minutes old, and a
\* forced invocation made meanwhile was turned away
C11_Witness ==
    \E p, q \in Procs :
        /\ pc[p] = "x_query"
        /\ run[p].force
        /\ marker # NONE
        /\ now - marker < MIN_INTERVAL_MINUTES
        /\ pc[q] = "refused"
        /\ run[q].force

-----------------------------------------------------------------------------
(* Properties of the store commands                                        *)

\* the steps of an append command, given what counts as a duplicate: the
\* command ends without a write when there is one, else it hands the list
\* read plus the new record to write_hot_memories, and its rename puts
\* exactly that list in the store's place
AppendSteps(p, dup) ==
    /\ (pc[p] = "locked" /\ pc'[p] \notin {"locked", "dead"}) =>
          /\ store' = store
          /\ dup => pc'[p] = "unlock"
          /\ ~dup => pc'[p] = "w_cap" /\ mem'[p] = Append(store, op[p].rec)
    /\ (pc[p] = "w_rename" /\ pc'[p] = "unlock") =>
          store' = Append(store, op[p].rec)

\* no two valid records with the same text, texts compared by eq
NoValidTwins(eq(_, _)) ==
    \A i, j \in 1 .. Len(store) :
        (i # j /\ IsValid(store[i]) /\ IsValid(store[j])) =>
            ~eq(store[i].fact, store[j].fact)

C13_Invalidate ==
    [][\A p \in Procs :
          op[p].kind = "invalidate" =>
             LET hit(m) == Contains(Lower(m.fact), Lower(op[p].text))
                 any == \E i \in 1 .. Len(store) : hit(store[i])
             IN  /\ (pc[p] # "w_rename" /\ pc'[p] # pc[p]) => store' = store
                 /\ (pc[p] = "locked" /\ pc'[p] \notin {"locked", "dead"}) =>
                       pc'[p] = (IF any THEN "w_cap" ELSE "unlock")
                 /\ (pc[p] = "w_rename" /\ pc'[p] = "unlock") =>
                       /\ Len(store') = Len(store)
                       /\ \A i \in 1 .. Len(store) :
                             /\ store'[i].fact = store[i].fact
                             /\ store'[i].id = store[i].id
                             /\ (IsValid(store[i]) /\ hit(store[i])) =>
                                    store'[i].t_invalid = now
                             /\ ~hit(store[i]) => store'[i] = store[i]]_storeVars

\* invalidate("EA") has set t_invalid on the valid record "Tea" and left
\* the other record as it was
C13_Witness ==
    \E p \in Procs :
        /\ pc[p] = "unlock"
        /\ op[p].kind = "invalidate"
        /\ op[p].text = T_ea
        /\ Len(store) = 2
        /\ IsValid(snap[p][1])
        /\ store[1].fact = T_tea
        /\ store[1].t_invalid = now
        /\ store[2] = snap[p][2]

\* C14: update(old, new, metadata) always writes; after it every record
\* that was valid and whose fact contains old is invalid, every record that
\* was there is in its place with its fact text, and exactly one record,
\* valid, with fact new and the given metadata, has been added at the end.
\* No step of any command changes the fact text of a record of the store.
C14_Update ==
    [][/\ \A i \in 1 .. Len(store), j \in 1 .. Len(store') :
             store[i].id = store'[j].id => store'[j].fact = store[i].fact
       /\ \A p \in Procs :
             op[p].kind = "update" =>
                /\ (pc[p] = "locked" /\ pc'[p] \notin {"locked", "dead"}) =>
                      pc'[p] = "w_cap"
                /\ (pc[p] = "w_rename" /\ pc'[p] = "unlock") =>
                      /\ Len(store') = Len(store) + 1
                      /\ store'[Len(store')] = op[p].rec
                      /\ IsValid(store'[Len(store')])
                      /\ \A i \in 1 .. Len(store) :
                            /\ store'[i].fact = store[i].fact
                            /\ store'[i].id = store[i].id
                            /\ (/\ IsValid(store[i])
                                /\ Contains(Lower(store[i].fact), Lower(op[p].text))) =>
                                   ~IsValid(store'[i])]_storeVars

\* update("EA", "Tea", metadata) has invalidated the valid record "Tea" and
\* added the new record after the two that were there
C14_Witness ==
    \E p \in Procs :
        /\ pc[p] = "unlock"
        /\ op[p].kind = "update"
        /\ op[p].text = T_ea
        /\ Len(snap[p]) = 2
        /\ Len(store) = 3
        /\ IsValid(snap[p][1]) /\ ~IsValid(store[1])
        /\ store[1].fact = snap[p][1].fact
        /\ store[3] = op[p].rec

\* C15: prune removes exactly the records whose t_invalid parses to a time
\* earlier than now - max_age; valid records, records invalidated within
\* max_age (the cutoff itself included) and records whose t_invalid does not
\* parse stay, in their order; with nothing to remove there is no write.
C15_Prune ==
    [][\A p \in Procs :
          op[p].kind = "prune" =>
             LET old(m) == /\ m.t_invalid \notin {NONE, UNPARSABLE}
                           /\ m.t_invalid < now - PRUNE_DEFAULT_MINUTES
                 keep(m) == ~old(m)
             IN  /\ (pc[p] # "w_rename" /\ pc'[p] # pc[p]) => store' = store
                 /\ (pc[p] = "locked" /\ pc'[p] \notin {"locked", "dead"}) =>
                       pc'[p] = (IF \E i \in 1 .. Len(store) : old(store[i])
                                 THEN "w_cap" ELSE "unlock")
                 /\ (pc[p] = "w_rename" /\ pc'[p] = "unlock") =>
                       store' = SelectSeq(store, keep)]_storeVars

\* a prune at minute 3000 has removed the record invalidated at minute 0
\* and kept, in order, the one with the unparsable t_invalid, the one
\* invalidated exactly 24 hours before and the valid one
C15_Witness ==
    \E p \in Procs :
        /\ pc[p] = "unlock"
        /\ op[p].kind = "prune"
        /\ now = 3000
        /\ Len(snap[p]) = 4
        /\ snap[p][1].t_invalid = 0
        /\ snap[p][2].t_invalid = UNPARSABLE
        /\ snap[p][3].t_invalid = now - PRUNE_DEFAULT_MINUTES
        /\ IsValid(snap[p][4])
        /\ store = <<snap[p][2], snap[p][3], snap[p][4]>>

ValidIds(s) == {s[i].id : i \in {j \in 1 .. Len(s) : IsValid(s[j])}}

\* C16: for every store and text, invalidating the text twice in a row
\* leaves the same set of valid records as invalidating it once: the second
\* list invalidate computes has the valid records of the first; after an
\* invalidate no valid record contains the text, and an invalidate of a
\* store in which no valid record contains the text leaves the set of valid
\* records as it is.
C16_InvalidateIdempotent ==
    /\ [](\A t \in MatchTexts :
            LET once == InvalidateBody(store, t, now).list
                twice == InvalidateBody(once, t, now + 1).list
            IN  ValidIds(twice) = ValidIds(once))
    /\ [][\A p \in Procs :
            (op[p].kind = "invalidate" /\ pc[p] = "w_rename" /\ pc'[p] = "unlock") =>
               LET hit(m) == Contains(Lower(m.fact), Lower(op[p].text))
               IN  /\ \A i \in 1 .. Len(store') : IsValid(store'[i]) => ~hit(store'[i])
                   /\ (\A i \in 1 .. Len(store) : IsValid(store[i]) => ~hit(store[i]))
                         => ValidIds(store') = ValidIds(store)]_storeVars

\* "Tea" was invalidated by invalidate("EA") at minute 60; a second
\* invalidate("EA") at a later time has written the store again and the
\* valid records are the same
C16_Witness ==
    \E p \in Procs :
        /\ pc[p] = "unlock"
        /\ op[p].kind = "invalidate"
        /\ op[p].text = T_ea
        /\ Len(snap[p]) = 2
        /\ snap[p][1].fact = T_tea
        /\ snap[p][1].t_invalid = 60
        /\ now > 60
        /\ store # snap[p]
        /\ ValidIds(store) = ValidIds(snap[p])

-----------------------------------------------------------------------------
(* Properties of the rate limit                                            *)

\* C17: with n validated candidates and r records of the store created
\* within the trailing hour, the rate limit passes the first
\* min(n, max(0, 5 - r)) candidates on to reconciliation (the run ends there
\* when that is none); and the store never holds more than max(0, 5 - r)
\* records created by one run, r counted without the run's own records.
C17_RateLimit ==
    /\ [](\A p \in Procs :
            LET own == {i \in 1 .. Len(store) :
                          \E k \in 1 .. Len(run[p].candidates) :
                             store[i].id = run[p].candidates[k].cid}
                r == Cardinality({i \in 1 .. Len(store) :
                                    /\ i \notin own
                                    /\ store[i].created_at > now - 60})
            IN  Cardinality(own) <= Max(0, 5 - r))
    /\ [][\A p \in Procs :
            (pc[p] = "x_rate" /\ pc'[p] \notin {"x_rate", "idle"}) =>
               LET n == Len(run[p].candidates)
                   r == Cardinality({i \in 1 .. Len(store) :
                                       store[i].created_at > now - 60})
                   k == Min(n, Max(0, 5 - r))
               IN  /\ store' = store
                   /\ k = 0 => pc'[p] = "x_done" /\ run'[p].results = <<>>
                   /\ k > 0 => /\ pc'[p] = "x_reconcile"
                                /\ run'[p].candidates = SubSeq(run[p].candidates, 1, k)]_vars

\* with four records created in the last hour, the two validated candidates
\* of a run were cut to the first one, which the run has added as the fifth
\* record
C17_Witness ==
    \E p \in Procs :
        /\ pc[p] = "x_done"
        /\ run[p].store_at_start = RecentStore
        /\ Len(run[p].candidates) = 1
        /\ run[p].candidates[1].fact = F_bulbs
        /\ run[p].candidates[1].importance = 5
        /\ Len(run[p].results) = 1
        /\ Len(store) = 5
        /\ store[5].id = run[p].candidates[1].cid
        /\ store[5].created_at = now

-----------------------------------------------------------------------------
(* Properties of reinforcement                                             *)

\* C18: the increment a reinforcement gives to the decay_strength of a
\* record is strictly larger than the increment the next reinforcement of
\* that record gives (the next one is determined by the record as written).
C18_DecreasingIncrements ==
    [][\A p \in Procs :
          (op[p].kind = "reinforce" /\ pc[p] = "w_rename" /\ pc'[p] = "unlock") =>
             \A i \in 1 .. Len(store) :
                Contains(Lower(store[i].fact), Lower(op[p].text)) =>
                   LET nth == store'[i].decay_strength - store[i].decay_strength
                       next == reinforce_on_access(store'[i], now).decay_strength
                                  - store'[i].decay_strength
                   IN  next < nth]_storeVars

\* C19: on an empty store, adding a fact of importance 6 the way the ADD
\* branch does gives a store of exactly one record, valid, with
\* decay_strength 1.0 and access_count 0; each of the first two
\* reinforcements of that record makes its decay_strength strictly larger,
\* and not larger than 1.0.
C19_AddThenReinforce ==
    [][\A p \in Procs :
          (pc[p] = "w_rename" /\ pc'[p] = "unlock") =>
             /\ (op[p].kind = "append" /\ store = <<>> /\ op[p].rec.importance = 6) =>
                   /\ Len(store') = 1
                   /\ store'[1].fact = Strip(F_tea_dusk)
                   /\ IsValid(store'[1])
                   /\ store'[1].decay_strength = 1000
                   /\ store'[1].access_count = 0
             /\ (/\ op[p].kind = "reinforce"
                 /\ Len(store) = 1
                 /\ store[1].fact = Strip(F_tea_dusk)
                 /\ store[1].access_count < 2) =>
                   /\ store'[1].decay_strength > store[1].decay_strength
                   /\ store'[1].decay_strength <= 1000]_storeVars

\* C20: the decay_strength of every record stays within [0, 1]; a
\* reinforcement never lowers the decay_strength of a record it matches and
\* adds exactly 1 to its access_count, and leaves the other records alone.
C20_ReinforceBounded ==
    /\ [](\A i \in 1 .. Len(store) : store[i].decay_strength \in 0 .. 1000)
    /\ [][\A p \in Procs :
            (op[p].kind = "reinforce" /\ pc[p] = "w_rename" /\ pc'[p] = "unlock") =>
               /\ Len(store') = Len(store)
               /\ \A i \in 1 .. Len(store) :
                     IF Contains(Lower(store[i].fact), Lower(op[p].text))
                     THEN /\ store'[i].decay_strength >= store[i].decay_strength
                          /\ store'[i].decay_strength <= 1000
                          /\ store'[i].access_count = store[i].access_count + 1
                          /\ store'[i].id = store[i].id
                     ELSE store'[i] = store[i]]_storeVars

\* a record found with decay_strength 0.4 and no access has been reinforced
\* twice: 0.4, 0.49, 0.552
C20_Witness ==
    \E p \in Procs :
        /\ pc[p] = "unlock"
        /\ op[p].kind = "reinforce"
        /\ Len(store) = 1
        /\ snap[p][1].access_count = 1
        /\ snap[p][1].decay_strength = 490
        /\ store[1].access_count = 2
        /\ store[1].decay_strength = 552

-----------------------------------------------------------------------------
(* Properties of the store lock                                            *)

\* C21: a process holds the store lock only inside a command; a command
\* that ends, by whichever path (its write done or failed, an early return
\* without a write, an exception out of the read), ends without the lock,
\* so that when no command is going on the lock is free.
C21_LockReleased ==
    /\ [](\A p \in lockHolders :
            pc[p] \in {"locked", "w_cap", "w_tmp", "w_lines", "w_rename",
                       "w_cleanup", "unlock"})
    /\ []((\A p \in Procs : pc[p] \in {"idle", "acquire", "dead"})
            => LockFree)
    /\ [][\A p \in Procs :
            (pc[p] # "idle" /\ pc'[p] = "idle") => p \notin lockHolders']_storeVars

\* a first command has ended after a read that raised or an early return
\* (the store lock file was taken and nothing was handed to a write), and
\* the same process has taken the lock again for a second command
C21_Witness ==
    /\ started = 2
    /\ pc[1] = "locked"
    /\ lockHolders = {1}
    /\ pc[2] = "idle"
    /\ store \in InitStores

\* C22: a process waiting in hot_memory_lock does not wait for ever: it
\* leaves the loop, either holding the lock (which was free) or by the
\* timeout error (the lock was held); when it leaves by the timeout the
\* store and the archive are as they were and the process has built
\* nothing, and while it waits only a lock holder changes the store.
C22_LockWaitEnds ==
    /\ \A p \in Procs : (pc[p] = "acquire") ~> (pc[p] # "acquire")
    /\ [](\A p \in Procs :
            pc[p] = "acquire"
                => /\ p \notin lockHolders
                   /\ tmp[p] = NoFile
                   /\ mem[p] = <<>> /\ target[p] = <<>>)
    /\ [][\A p \in Procs :
            /\ (pc[p] = "acquire" /\ pc'[p] # "acquire")
                  => \/ /\ lockHolders = {}
                        /\ pc'[p] = "locked"
                        /\ lockHolders' = {p}
                     \/ /\ lockHolders # {}
                        /\ pc'[p] = "idle"
                        /\ store' = store /\ archive' = archive
                        /\ lockHolders' = lockHolders
            /\ (pc[p] = "acquire" /\ store' # store)
                  => \E q \in lockHolders \ {p} : pc[q] = "w_rename"]_storeVars

\* a process waits in hot_memory_lock while the other one, holding the
\* lock, is about to replace the store file
C22_Witness ==
    \E p, q \in Procs :
        /\ pc[p] = "acquire"
        /\ q \in lockHolders
        /\ pc[q] = "w_rename"

\* C23: the file at the store's path always holds a complete list: the list
\* the writer read (pre-write) until its rename, the list it wrote
\* (post-write) from the rename on; a read made without the lock returns the
\* whole list that was at the path when it opened the file, whatever a
\* writer does between the open and the return.
C23_ReadSeesWholeList ==
    /\ [](\A q \in Procs :
            /\ (BeforeRename(q) \/ pc[q] = "w_cleanup") => store = snap[q]
            /\ (pc[q] = "unlock" /\ store # snap[q]) => store = target[q])
    /\ [][\A p \in Procs :
            /\ (pc[p] = "idle" /\ pc'[p] = "reading") => snap'[p] = store
            /\ (pc[p] = "reading" /\ pc'[p] # "reading")
                  => mem'[p] = snap[p]
            /\ (pc[p] = "reading" /\ snap[p] = store /\ store' # store)
                  => \E q \in Procs \ {p} :
                        /\ pc[q] = "w_rename"
                        /\ snap[p] = snap[q]
                        /\ store' = target[q]]_storeVars

\* a reader opened the file, a writer replaced it, and the reader returned
\* the complete pre-write list while the path holds the post-write list
C23_Witness ==
    \E p, q \in Procs :
        /\ pc[p] = "read_done"
        /\ pc[q] = "unlock"
        /\ q \in lockHolders
        /\ mem[p] = snap[q]
        /\ store = target[q]
        /\ mem[p] # store

-----------------------------------------------------------------------------
(* Eviction order                                                          *)

\* C24: of the list a write_hot_memories call is given, the list it writes
\* keeps the unpinned records from some position on (the newest ones, in
\* order) and so removes only the earliest ones; it keeps every pinned
\* record unless the list is over MAX_HOT_MEMORIES and holds more than
\* MAX_PINNED_MEMORIES pinned ones, and then it keeps exactly the newest
\* MAX_PINNED_MEMORIES of them; a list within MAX_HOT_MEMORIES is written
\* as given.
C24_EvictsOldestFirst ==
    \A p \in Procs :
        (op[p].kind = "write_all" /\ pc[p] \in {"w_tmp", "w_lines", "w_rename",
                                                 "w_cleanup", "unlock"})
           => LET given == mem[p]
                  written == target[p]
                  gu == SelectSeq(given, IsUnpinned)
                  gp == SelectSeq(given, IsPinned)
                  wu == SelectSeq(written, IsUnpinned)
                  wp == SelectSeq(written, IsPinned)
              IN  /\ Len(wu) <= Len(gu)
                  /\ wu = SubSeq(gu, Len(gu) - Len(wu) + 1, Len(gu))
                  /\ Len(wp) <= Len(gp)
                  /\ wp = SubSeq(gp, Len(gp) - Len(wp) + 1, Len(gp))
                  /\ Len(wp) < Len(gp)
                        => /\ Len(gp) > MAX_PINNED_MEMORIES
                           /\ Len(wp) = MAX_PINNED_MEMORIES
                  /\ Len(wu) < Len(gu)
                        => /\ Len(given) > MAX_HOT_MEMORIES
                           /\ Len(written) = MAX_HOT_MEMORIES
                  /\ Len(given) <= MAX_HOT_MEMORIES => written = given
                  /\ Len(written) = Len(wp) + Len(wu)

\* a call given 52 pinned and 152 unpinned records has replaced the store:
\* the two oldest pinned and the two oldest unpinned records are gone
C24_Witness ==
    \E p \in Procs :
        /\ op[p].kind = "write_all"
        /\ pc[p] = "unlock"
        /\ store = target[p]
        /\ Len(PinnedOf(mem[p])) = MAX_PINNED_MEMORIES + 2
        /\ Len(PinnedOf(store)) = MAX_PINNED_MEMORIES
        /\ Len(UnpinnedOf(store)) = Len(UnpinnedOf(mem[p])) - 2
        /\ mem[p][2] \notin Range(store)
        /\ mem[p][Len(mem[p])] \in Range(store)

-----------------------------------------------------------------------------
(* Properties of the failure tracking                                      *)

\* C25: for each component the count in the failure file equals the number
\* of record_failure calls made for it since its last record_success (no
\* active entry counting as zero), and the history holds at most
\* HISTORY_CAP entries.
C25_CounterMatchesRecorded ==
    /\ \A c \in Components : CountOf(failure_data, c) = recorded[c]
    /\ Len(failure_data.history) <= HISTORY_CAP

-----------------------------------------------------------------------------
(* Properties of the linter                                                *)

\* C26: a run of the linter ends with exit code 2 when the store file is
\* missing or cannot be read, with 1 when the report holds issues, and with
\* 0 when the store is clean.
C26_ExitCode ==
    lint.runs > 0
       => lint.exit = IF lint.unreadable \/ lint.linted = <<>> THEN 2
                      ELSE IF lint.issues THEN 1
                      ELSE 0

\* C27: both records of every pair the duplicate check reports are active
\* (t_invalid null) and share at least half of the smaller word set.
C27_DuplicatesAmongActive ==
    \A pair \in lint.dup :
        /\ IsValid(lint.linted[pair[1]])
        /\ IsValid(lint.linted[pair[2]])
        /\ OverlapAtLeastHalf(Tokenize(lint.linted[pair[1]].fact),
                              Tokenize(lint.linted[pair[2]].fact))

\* C28: the category check flags no record whose category is one of
\* preference, person, project, event, plan, health, work, opinion, habit,
\* location, relationship, reflection, general.
C28_EnumCategoriesPass ==
    \A i \in lint.cat :
        lint.linted[i].category \notin
            {"preference", "person", "project", "event", "plan", "health", "work",
             "opinion", "habit", "location", "relationship", "reflection", "general"}

-----------------------------------------------------------------------------
(* Entities of stored records                                              *)

\* C29: every record that an append puts into the store (for the extractor
\* or for weekly-reflection.py) has at least one entity: its entities key is
\* present and its list is not empty.
C29_StoredWithEntities ==
    [][\A i \in 1 .. Len(store') :
          store'[i] \notin Range(store) => store'[i].entities \notin {NONE, 0}]_storeVars

-----------------------------------------------------------------------------
(* The minimum-interval guard                                              *)

-----------------------------------------------------------------------------
(* The linter's auto-fix                                                   *)

FactsOf(s) == [i \in 1 .. Len(s) |-> s[i].fact]
IdSeq(s) == [i \in 1 .. Len(s) |-> s[i].id]

\* C31: a run of the linter, with or without --fix, leaves the store with
\* the same records in the same order and with the same fact texts: the
\* sequence of fact texts after the run equals the sequence before it.
C31_FixKeepsFacts ==
    [][lint'.runs # lint.runs
          => /\ FactsOf(store') = FactsOf(store)
             /\ IdSeq(store') = IdSeq(store)]_vars

\* a run with --fix has rewritten the store it linted
C31_Witness ==
    /\ lint.runs > 0
    /\ lint.fix
    /\ lint.linted # <<>>
    /\ store # <<>>
    /\ \E i \in 1 .. Len(store) :
          store[i].category = "general" /\ store[i].entities = 0

-----------------------------------------------------------------------------
(* The forgetting curve (compute_decay_strength alone)                     *)

\* the elapsed days a caller passes: a clock set back, none, and the
\* columns of DecayTable
ElapsedDays == {-1, 0} \cup {DecayDays[k] : k \in 1 .. Len(DecayDays)}

\* one call of compute_decay_strength for the importance of the call
\* before; the model remembers the last two calls
ComputeDecay ==
    /\ decay.calls < MaxDecayCalls
    /\ \E d \in ElapsedDays :
          decay' = [calls |-> decay.calls + 1,
                    importance |-> decay.importance,
                    d1 |-> decay.d2, s1 |-> decay.s2,
                    d2 |-> d,
                    s2 |-> compute_decay_strength(decay.importance, d)]
    /\ UNCHANGED storeVars
    /\ UNCHANGED <<marker, instHolders, run, healthVars, lint, api>>

DecayInit ==
    /\ store = <<>>
    /\ archive = <<>>
    /\ lockHolders = {}
    /\ now = 0
    /\ nextId = 1
    /\ pc = [p \in Procs |-> "idle"]
    /\ op = [p \in Procs |-> NoOp]
    /\ snap = [p \in Procs |-> <<>>]
    /\ mem = [p \in Procs |-> <<>>]
    /\ target = [p \in Procs |-> <<>>]
    /\ evict = [p \in Procs |-> <<>>]
    /\ tmp = [p \in Procs |-> NoFile]
    /\ started = 0
    /\ marker = NONE
    /\ instHolders = {}
    /\ run = [p \in Procs |-> NoRun]
    /\ HealthIdle
    /\ lint = NoLint
    /\ \E i \in 1 .. 10 : decay = [NoDecay EXCEPT !.importance = i]
    /\ api = NoCall

DecayNext == ComputeDecay

SpecDecay == DecayInit /\ [][DecayNext]_vars

\* C32: for one importance the strength does not grow with the elapsed
\* days (strength(d1) >= strength(d2) whenever d1 < d2), it is 1.0 for
\* d <= 0, and every value lies in [0, 1].
C32_DecayMonotone ==
    decay.calls >= 1
       => /\ decay.s2 >= 0 /\ decay.s2 <= 1000
          /\ decay.d2 <= 0 => decay.s2 = 1000
          /\ decay.calls >= 2
                => /\ decay.d1 < decay.d2 => decay.s1 >= decay.s2
                   /\ decay.d2 < decay.d1 => decay.s2 >= decay.s1

\* two calls for importance 7, the second for more elapsed days and with
\* a strictly smaller strength
C32_Witness ==
    /\ decay.calls = 2
    /\ decay.importance = 7
    /\ decay.d1 = 7
    /\ decay.d2 = 30
    /\ decay.s1 > decay.s2
    /\ decay.s2 > 0

-----------------------------------------------------------------------------
(* Invalidation of records that are invalid already                        *)

\* C33: invalidate(text) changes only records that are valid: a record that
\* is invalid already is written back as it was, with its t_invalid, also
\* when its fact contains the text.
C33_InvalidKeepsTimestamp ==
    [][\A p \in Procs :
          (op[p].kind = "invalidate" /\ pc[p] = "w_rename" /\ pc'[p] = "unlock") =>
             /\ Len(store') = Len(store)
             /\ \A i \in 1 .. Len(store) :
                   ~IsValid(store[i]) => store'[i] = store[i]]_storeVars

-----------------------------------------------------------------------------
(* update against invalidate followed by append                            *)

\* the store after invalidate_hot_memory(old_fact) and then
\* append_hot_memory(new fact, metadata), both at time t, each writing
\* through write_hot_memories when it writes
InvalidateThenAppend(memories, old_fact, new_rec, t) ==
    LET inv == InvalidateBody(memories, old_fact, t)
        after == IF inv.write THEN Capped(inv.list) ELSE memories
        app == AppendBody(after, new_rec)
    IN  IF app.write THEN Capped(app.list) ELSE after

\* C34: the store an update(old, new, metadata) writes is the store that
\* invalidate(old) followed by append(new, metadata) leaves, whatever the
\* store and the two texts (timestamps taken at the same instant).
C34_UpdateIsInvalidateThenAppend ==
    [][\A p \in Procs :
          (op[p].kind = "update" /\ pc[p] = "w_rename" /\ pc'[p] = "unlock") =>
             store' = InvalidateThenAppend(store, op[p].text, op[p].rec, now)]_storeVars

-----------------------------------------------------------------------------
(* Mutating commands called while another one is going on                  *)

\* the five mutating operations and their arguments
MutatingCalls(id, t) ==
    {Cmd("append", <<>>, MkRec(id, T_bee, FALSE, t, 1, "preference", 1), FALSE, FALSE),
     Cmd("invalidate", T_ea, NoRec, FALSE, FALSE),
     Cmd("invalidate", T_bee, NoRec, FALSE, FALSE),
     Cmd("update", T_bee, MkRec(id, T_tea, FALSE, t, 6, "preference", 1), FALSE, FALSE),
     Cmd("prune", <<>>, NoRec, FALSE, FALSE),
     Cmd("reinforce", T_ea, NoRec, FALSE, FALSE)}

\* a mutating operation is called and enters hot_memory_lock, whoever
\* holds the lock
RequestMutation(p) ==
    \E o \in MutatingCalls(nextId, now) :
        /\ Idle(p)
        /\ pc' = [pc EXCEPT ![p] = "acquire"]
        /\ op' = [op EXCEPT ![p] = o]
        /\ nextId' = nextId + 1
        /\ started' = started + 1
        /\ UNCHANGED <<store, archive, lockHolders, now, snap, mem, target, evict, tmp>>
        /\ UNCHANGED pipeVars

ConcurrentNext ==
    \/ \E p \in Procs : RequestMutation(p)
    \/ \E p \in Procs : Acquire(p)
    \/ \E p \in Procs : LockTimeout(p)
    \/ \E p \in Procs : Body(p)
    \/ \E p \in Procs : WriteCap(p)
    \/ \E p \in Procs : WriteTmpCreate(p)
    \/ \E p \in Procs : WriteTmpCreateFail(p)
    \/ \E p \in Procs : WriteTmpLines(p)
    \/ \E p \in Procs : WriteTmpLinesFail(p)
    \/ \E p \in Procs : WriteRename(p)
    \/ \E p \in Procs : WriteRenameFail(p)
    \/ \E p \in Procs : WriteCleanup(p)
    \/ \E p \in Procs : Unlock(p)

SpecConcurrent == EditInit /\ [][ConcurrentNext]_storeVars

\* C35: mutating operations (append, invalidate, update, prune, reinforce)
\* called while others are going on take effect one after the other: the
\* store changes only when one of them replaces the file, what it puts
\* there is what the operation makes of the store as it is at that moment,
\* and an operation that returns without a write is one that changes
\* nothing in the store as it is.  The final store is the result of the
\* operations in the order of their replacements, none of them undone by
\* another.
C35_OneAfterTheOther ==
    [][/\ store' # store => \E p \in Procs : pc[p] = "w_rename" /\ pc'[p] = "unlock"
       /\ \A p \in Procs :
             /\ (pc[p] = "w_rename" /\ pc'[p] = "unlock")
                   => /\ BodyOf(op[p], store, now).write
                      /\ store' = Capped(BodyOf(op[p], store, now).list)
             /\ (pc[p] = "locked" /\ pc'[p] = "unlock")
                   => ~BodyOf(op[p], store, now).write]_storeVars

\* invalidate("EA") has replaced the store while an update called in the
\* meantime waits for the lock
C35_Witness ==
    \E p, q \in Procs :
        /\ p # q
        /\ pc[p] = "unlock"
        /\ op[p].kind = "invalidate"
        /\ store = target[p]
        /\ store # snap[p]
        /\ lockHolders = {p}
        /\ pc[q] = "acquire"
        /\ op[q].kind = "update"

-----------------------------------------------------------------------------
(* The reasoning service (hot_memory_store.py call_claude)                 *)

\* the HTTP status codes of line 618
TransientStatus == {429, 500, 502, 503, 529}

\* what one attempt can come to: a response that parses, an HTTPError with
\* its status, or any other exception (URLError, socket timeout, a body
\* that is no JSON, a text block without text)
Ok == [kind |-> "ok", code |-> 200]
HttpError(c) == [kind |-> "http", code |-> c]
OtherError == [kind |-> "error", code |-> 0]
AttemptOutcomes == {Ok, OtherError} \cup {HttpError(c) : c \in TransientStatus \cup {400, 401}}

\* a loop that tries again after every HTTP error
ShouldRetry_AnyStatus(outcome, attempt) ==
    /\ outcome.kind \in {"http", "error"}
    /\ attempt < MAX_RETRIES

\* lines 618 and 624: the conditions under which the loop sleeps and
\* continues
ShouldRetry(outcome, attempt) ==
    \/ /\ outcome.kind = "http"
       /\ outcome.code \in TransientStatus
       /\ attempt < MAX_RETRIES
    \/ /\ outcome.kind = "error"
       /\ attempt < MAX_RETRIES

ApiFrame ==
    /\ UNCHANGED storeVars
    /\ UNCHANGED <<marker, instHolders, run, healthVars, lint, decay>>

\* call_claude is called: the loop starts with attempt 1
CallClaude ==
    /\ api.pc \in {"idle", "returned"}
    /\ api.calls < MaxApiCalls
    /\ api' = [calls |-> api.calls + 1, pc |-> "request", attempt |-> 1,
               outcomes |-> <<>>, result |-> "none"]
    /\ ApiFrame

\* one pass through the loop body, lines 595-627
ClaudeAttempt ==
    /\ api.pc = "request"
    /\ api.attempt <= MAX_RETRIES
    /\ \E outcome \in AttemptOutcomes :
          api' = [api EXCEPT
                    !.outcomes = Append(@, outcome),
                    !.pc = IF outcome.kind # "ok" /\ ShouldRetry(outcome, api.attempt)
                           THEN "sleep" ELSE "returned",
                    !.result = IF outcome.kind = "ok" THEN "text"
                               ELSE IF ShouldRetry(outcome, api.attempt) THEN "none"
                               ELSE "empty"]
    /\ ApiFrame

\* time.sleep(RETRY_DELAY_SECONDS * attempt) returns and the loop continues
ClaudeSleep ==
    /\ api.pc = "sleep"
    /\ api' = [api EXCEPT !.attempt = @ + 1,
                          !.pc = IF api.attempt + 1 <= MAX_RETRIES
                                 THEN "request" ELSE "returned",
                          !.result = IF api.attempt + 1 <= MAX_RETRIES
                                     THEN "none" ELSE "empty"]
    /\ ApiFrame

ApiInit ==
    /\ store = <<>>
    /\ archive = <<>>
    /\ lockHolders = {}
    /\ now = 0
    /\ nextId = 1
    /\ pc = [p \in Procs |-> "idle"]
    /\ op = [p \in Procs |-> NoOp]
    /\ snap = [p \in Procs |-> <<>>]
    /\ mem = [p \in Procs |-> <<>>]
    /\ target = [p \in Procs |-> <<>>]
    /\ evict = [p \in Procs |-> <<>>]
    /\ tmp = [p \in Procs |-> NoFile]
    /\ started = 0
    /\ PipeIdle

ApiNext ==
    \/ CallClaude
    \/ ClaudeAttempt
    \/ ClaudeSleep

SpecApi == ApiInit /\ [][ApiNext]_vars

-----------------------------------------------------------------------------
(* A store file above the size ceiling                                     *)

\* stores found at minute 60: one record with a fact of 6 MB (below the
\* ceiling), and two files above it: a dump invalidated and stored again,
\* with and without a small record in front
OversizeInitStores ==
    { <<MkRec(1, T_tea, FALSE, 0, 6, "preference", 1),
        MkRec(2, F_dump, FALSE, 0, 6, "general", 1)>>,
      <<[MkRec(1, F_dump, FALSE, 0, 6, "general", 1) EXCEPT !.t_invalid = 30],
        MkRec(2, F_dump, FALSE, 30, 6, "general", 1)>>,
      <<MkRec(1, T_tea, FALSE, 0, 6, "preference", 1),
        [MkRec(2, F_dump, FALSE, 0, 6, "general", 1) EXCEPT !.t_invalid = 30],
        MkRec(3, F_dump, FALSE, 30, 6, "general", 1)>> }

OversizeInit ==
    /\ store \in OversizeInitStores
    /\ now = 60
    /\ archive = <<>>
    /\ lockHolders = {}
    /\ nextId = 10
    /\ pc = [p \in Procs |-> "idle"]
    /\ op = [p \in Procs |-> NoOp]
    /\ snap = [p \in Procs |-> <<>>]
    /\ mem = [p \in Procs |-> <<>>]
    /\ target = [p \in Procs |-> <<>>]
    /\ evict = [p \in Procs |-> <<>>]
    /\ tmp = [p \in Procs |-> NoFile]
    /\ started = 0
    /\ PipeIdle

SpecOversize == OversizeInit /\ [][ConcurrentNext]_storeVars

\* C37: a command that found the store file above the ceiling, and so read
\* an empty list, does not replace the file: every record of the file is
\* still there after the command's write.
C37_OversizeNotReplaced ==
    [][\A p \in Procs :
          (/\ pc[p] = "w_rename" /\ pc'[p] = "unlock"
           /\ FileBytes(store) > MAX_STORE_BYTES)
              => Ids(store) \subseteq Ids(store')]_storeVars

-----------------------------------------------------------------------------
(* The marker after an activity query that did not succeed                 *)

\* C38: a run whose activity query did not succeed (an error, or the
\* capsule still locked after the last retry) leaves the marker as it is;
\* the marker moves on an empty result only when the query succeeded.
C38_FailedQueryKeepsMarker ==
    [][\A p \in Procs :
          (/\ pc[p] = "x_query"
           /\ pc'[p] \notin {"x_query", "idle"}
           /\ run'[p].logs \in {"error", "locked"})
              => marker' = marker]_vars

-----------------------------------------------------------------------------
(* The default ADD                                                         *)

\* C39: a candidate gets the ADD without a confirmation of the reasoning
\* service ("no existing memories found") only when the capsule search ran
\* and found nothing; a candidate whose capsule search failed is not put
\* into the store on that ground.
C39_NoBlindAddAfterFailedSearch ==
    [][\A p \in Procs :
          (/\ pc[p] = "x_reconcile"
           /\ Len(run'[p].results) = Len(run[p].results) + 1)
              => LET res == run'[p].results[Len(run'[p].results)]
                     default == /\ res.operation = "ADD"
                                /\ res.reason = "no existing memories found"
                 IN  /\ default => res.searched
                     /\ (default /\ ~res.searched) => store' = store]_vars

-----------------------------------------------------------------------------
(* Alerts and recovery notifications                                       *)

\* C40: in a streak of failures of a component (the record_failure calls
\* since its last record_success) the alert is sent once, by the call that
\* is the third of the streak, and by no other; the record_success that
\* ends the streak sends the recovery notification exactly when the streak
\* had three failures or more.
C40_AlertOncePerStreak ==
    [][\A c \in Components :
          /\ recorded'[c] = recorded[c] + 1
                => IF recorded'[c] = CONSECUTIVE_FAILURE_ALERT_THRESHOLD
                   THEN /\ Len(sent') = Len(sent) + 1
                        /\ sent'[Len(sent')].kind = "ALERT"
                        /\ sent'[Len(sent')].component = c
                   ELSE sent' = sent
          /\ (recorded'[c] = 0 /\ recorded[c] > 0)
                => IF recorded[c] >= CONSECUTIVE_FAILURE_ALERT_THRESHOLD
                   THEN /\ Len(sent') = Len(sent) + 1
                        /\ sent'[Len(sent')].kind = "RECOVERED"
                        /\ sent'[Len(sent')].component = c
                   ELSE sent' = sent]_vars

=============================================================================
